---- MODULE Spec2Model ----
(***************************************************************************)
(* Pi-Under-Pressure: the stress orchestrator (run_stress_test), its       *)
(* workload runners, the telemetry channel and its consumers, the Ctrl+C   *)
(* handler and the report generator, as one state machine.                 *)
(*                                                                         *)
(* Time is a discrete clock `now`, in sampling ticks (seconds) since       *)
(* start_time.                                                             *)
(***************************************************************************)
EXTENDS Integers, Sequences, FiniteSets, TLC

\* ---------------------------------------------------------------- bounds
\* largest --threads value explored
MaxThreads == 3
\* largest configured duration explored, in ticks
MaxDuration == 2
\* the clock runs up to the longest duration (and on, to let a started sleep finish)
MaxTime == MaxDuration
\* capacity of the stats channel: mpsc::channel(100) in main, scaled to the
\* explored durations so that the longest run produces one sample more than
\* the channel holds, as a run of more than 100 s does
ChanCap == MaxDuration - 1
\* compute threads that run side by side in the concurrency check
ConcThreads == 2
\* largest total RAM explored, in MiB (the special sizes of RamSizes apart)
MaxRamMb == 300
\* largest counter value in a /proc/stat snapshot
MaxJiffies == 2
\* most lines of /proc/mounts
MaxMounts == 2
\* most oracle invocations that report a failure in one run
MaxErrors == 2
\* most runner units spawned in one explored configuration
MaxUnits == 1
\* longest list of I/O-error lines handed to generate_report
MaxIoLines == 2

\* ------------------------------------------------------------- constants
Categories == {"cpu", "memory", "nvme", "video"}

\* iteration % 4 in run_cpu_stress
CPU_ORACLES == 4
\* iteration % 4 in run_memory_stress
MEM_ORACLES == 4
\* iteration % 3 in run_nvme_stress
NVME_ORACLES == 3

VARIABLES
    config,         \* StressConfig: cpu, memory, nvme, video, threads, duration
    nvme_info,      \* TRUE iff a storage-device descriptor is present (Option<NvmeInfo>)
    running,        \* Arc<AtomicBool>: TRUE while the run may continue
    errors,         \* the four Arc<AtomicU64> error counters
    now,            \* the clock: ticks since start_time
    pc,             \* position of main / run_stress_test
    slept,          \* run_stress_test: TRUE once the current 1 s sleep has lasted a tick
    chan,           \* the stats channel: queued StressStats
    tui,            \* the TUI task: "none" (simple mode), "init", "loop", "exited"
    ctrlc,          \* the Ctrl+C task: "armed" or "fired"
    cpu,            \* compute threads: [pc, iteration]
    mem,            \* memory threads: [pc, iteration]
    nvme,           \* storage task: [pc, iteration]
    video,          \* video thread: [pc, iteration]
    result,         \* <<>> or <<TestResult>>
    report,         \* <<>> or <<FinalReport>>
    env,            \* what the sensor queries can give in this run: temps, raws,
                    \*   nvme_temps (None: the query fails)
    tele,           \* run_stress_test locals: temp_samples, max_cpu_temp, max_nvme_temp,
                    \*   throttle_events, under_voltage_events, last_throttle_raw
    stats,          \* <<>> or <<the StressStats built by the current tick>>
    call,           \* the function called on its own, with its inputs ([fn |-> "none"] in a run)
    ret,            \* <<>> or <<the value that call returned>>
    fs,             \* the storage test file: file ("absent", "partial", "full") and
                    \*   cleanup (the runner's final remove_file has been attempted)
    frame,          \* the locals of a function stepped through on its own
                    \*   ([fn |-> "none"] otherwise)
    invoked,        \* history: the oracle each runner invoked last ("none" before the first)
    failures,       \* history: oracle invocations that returned failure, per category
    hist            \* history: shutdown ("none", "early", "due"), create_failed, nvme_ran,
                    \*   open_failed (a storage cycle could not open the test file),
                    \*   samples (per tick: the raw register read, whether the tick
                    \*   counted a throttle event, an under-voltage event)

vars == <<config, nvme_info, running, errors, now, pc, slept, chan,
          tui, ctrlc, cpu, mem, nvme, video, result, report, env, tele, stats,
          call, ret, fs, frame, invoked, failures, hist>>

Threads == 1..MaxThreads

Min(a, b) == IF a < b THEN a ELSE b

\* ------------------------------------------------ who gets spawned (mod.rs)
NumCpuThreads(c) == IF c.cpu THEN c.threads ELSE 0

\* one memory thread per configured thread, without the cap
NumMemThreadsUncapped(c) == IF c.memory THEN c.threads ELSE 0

\* num_mem_threads = 2.min(config.threads)
NumMemThreads(c) == IF c.memory THEN Min(2, c.threads) ELSE 0

NvmeSpawned(c, info) == c.nvme /\ info

VideoSpawned(c) == c.video

NumUnits(c, info) ==
    NumCpuThreads(c) + NumMemThreads(c)
        + (IF NvmeSpawned(c, info) THEN 1 ELSE 0)
        + (IF VideoSpawned(c) THEN 1 ELSE 0)

\* Option<f32>::None
None == -1

\* a fault-free, quiet environment: one temperature, no throttling, no NVMe sensor
QuietEnv == [temps |-> {50}, raws |-> {0}, nvme_temps |-> {None}]

Tele0 ==
    [temp_samples |-> <<>>, max_cpu_temp |-> 0, max_nvme_temp |-> None,
     throttle_events |-> 0, under_voltage_events |-> 0, last_throttle_raw |-> 0]

Configs ==
    [cpu: BOOLEAN, memory: BOOLEAN, nvme: BOOLEAN, video: BOOLEAN,
     threads: Threads, duration: 1..MaxDuration]

UiModes == {"Tui", "Simple"}

\* no runner has invoked an oracle
NoneInvoked ==
    [cpu |-> [i \in Threads |-> "none"], memory |-> [i \in Threads |-> "none"],
     nvme |-> "none"]

\* no function is being stepped through
NoFrame == [fn |-> "none"]

\* the state main hands to run_stress_test, whatever the configuration
Boot ==
    /\ running = TRUE
    /\ errors = [c \in Categories |-> 0]
    /\ now = 0
    /\ pc = "start"
    /\ slept = FALSE
    /\ chan = <<>>
    /\ ctrlc = "armed"
    /\ cpu = [i \in Threads |-> [pc |-> "idle", iteration |-> 0]]
    /\ mem = [i \in Threads |-> [pc |-> "idle", iteration |-> 0]]
    /\ nvme = [pc |-> "idle", iteration |-> 0]
    /\ video = [pc |-> "idle", iteration |-> 0]
    /\ result = <<>>
    /\ report = <<>>
    /\ env = QuietEnv
    /\ tele = Tele0
    /\ stats = <<>>
    /\ invoked = NoneInvoked
    /\ failures = [c \in Categories |-> 0]
    /\ hist = [shutdown |-> "none", create_failed |-> FALSE, nvme_ran |-> FALSE,
               open_failed |-> FALSE, samples |-> <<>>]

\* the TUI task is spawned in Tui mode only
UiStart(m) == IF m = "Tui" THEN "init" ELSE "none"

\* a whole run: no function is called on its own
NoCall == [fn |-> "none"]

Uncalled == call = NoCall /\ ret = <<>> /\ frame = NoFrame

\* no test file on disk before the run
FsStart == [file |-> "absent", cleanup |-> FALSE]

Init ==
    /\ config \in Configs
    /\ nvme_info \in BOOLEAN
    /\ NumUnits(config, nvme_info) <= MaxUnits
    \* the thread count is read only while spawning: counts above the unit
    \* budget repeat the runs of the counts within it
    /\ config.threads <= MaxUnits
    /\ \E m \in UiModes : tui = UiStart(m)
    /\ fs = FsStart
    /\ Uncalled
    /\ Boot

\* ------------------------------------------------------- shared atomics
\* a canceller that toggles the flag instead of clearing it
StoreStopToggle(cur) == ~cur

\* running.store(false, Ordering::SeqCst): the value every canceller stores
StoreStop(cur) == FALSE

\* history: whether the deadline had been reached when the flag was first cleared
NoteShutdown(h, wasRunning) ==
    IF wasRunning /\ h.shutdown = "none"
    THEN [h EXCEPT !.shutdown = IF now >= config.duration THEN "due" ELSE "early"]
    ELSE h

\* fetch_sub in place of fetch_add
FetchSub(e, c) == [e EXCEPT ![c] = @ - 1]

\* store(1) in place of fetch_add(1): concurrent failures overwrite each other
FetchAddStore(e, c) == [e EXCEPT ![c] = 1]

\* errors.fetch_add(1, Ordering::Relaxed) on the counter of category c
FetchAdd(e, c) == [e EXCEPT ![c] = @ + 1]

TotalFailures == failures["cpu"] + failures["memory"] + failures["nvme"] + failures["video"]

\* outcomes an oracle invocation may have here: failure only while the cap allows
OracleOutcomes == IF TotalFailures < MaxErrors THEN BOOLEAN ELSE {TRUE}

\* ------------------------------------------------ throttle register decode
Pow2(k) == 2 ^ k

\* a decode that tests the bit above the one asked for
BitAbove(raw, k) == (raw \div Pow2(k + 1)) % 2 = 1

\* (raw & (1 << k)) != 0
Bit(raw, k) == (raw \div Pow2(k)) % 2 = 1

\* ThrottleStatus::from_raw
from_raw(raw) ==
    [under_voltage_now |-> Bit(raw, 0),
     freq_capped_now |-> Bit(raw, 1),
     throttled_now |-> Bit(raw, 2),
     soft_temp_limit_now |-> Bit(raw, 3),
     under_voltage_occurred |-> Bit(raw, 16),
     freq_capped_occurred |-> Bit(raw, 17),
     throttled_occurred |-> Bit(raw, 18),
     soft_temp_limit_occurred |-> Bit(raw, 19),
     raw_value |-> raw]

\* ThrottleStatus::has_any_current_issue
has_any_current_issue(st) ==
    st.under_voltage_now \/ st.freq_capped_now \/ st.throttled_now \/ st.soft_temp_limit_now

\* ThrottleStatus::has_any_historical_issue
has_any_historical_issue(st) ==
    \/ st.under_voltage_occurred
    \/ st.freq_capped_occurred
    \/ st.throttled_occurred
    \/ st.soft_temp_limit_occurred

\* a tracker that looks at the level of the register on every tick
ThrottleLevel(raw, last) == TRUE

\* current_throttle != last_throttle_raw
ThrottleChanged(raw, last) == raw # last

\* run_stress_test, the tracking part of one sampling tick
Track(t, temp, ntemp, raw) ==
    LET st == from_raw(raw)
        changed == ThrottleChanged(raw, t.last_throttle_raw)
    IN [temp_samples |-> Append(t.temp_samples, temp),
        max_cpu_temp |-> IF temp > t.max_cpu_temp THEN temp ELSE t.max_cpu_temp,
        max_nvme_temp |->
            IF ntemp = None THEN t.max_nvme_temp
            ELSE IF t.max_nvme_temp = None \/ ntemp > t.max_nvme_temp THEN ntemp
            ELSE t.max_nvme_temp,
        throttle_events |->
            IF changed /\ (st.throttled_now \/ st.freq_capped_now \/ st.soft_temp_limit_now)
            THEN t.throttle_events + 1 ELSE t.throttle_events,
        under_voltage_events |->
            IF changed /\ st.under_voltage_now
            THEN t.under_voltage_events + 1 ELSE t.under_voltage_events,
        last_throttle_raw |-> raw]

\* get_cpu_temp: the value of a reading; 0.0 when neither vcgencmd nor the
\* thermal zone could be read (reading None)
get_cpu_temp(reading) == IF reading = None THEN 0 ELSE reading

\* get_throttle_status, as the raw word of the status it returns:
\* ThrottleStatus::default() (every flag false, raw_value 0) when the query failed
get_throttle_status(word) == IF word = None THEN 0 ELSE word

\* history: what the tick that took tele t to t2 read and counted; reading
\* is what the temperature query gave (None when it failed)
NoteSample(h, t, t2, raw, reading) ==
    [h EXCEPT !.samples =
        Append(@, [raw |-> raw,
                   reading |-> reading,
                   throttle |-> t2.throttle_events # t.throttle_events,
                   under_voltage |-> t2.under_voltage_events # t.under_voltage_events])]

\* the StressStats built by one tick (the fields the display reads)
BuildStats(t, el, temp, raw) ==
    [elapsed_secs |-> el,
     cpu_temp_c |-> temp,
     cpu_temp_max |-> t.max_cpu_temp,
     throttle_raw |-> raw,
     nvme_temp_max |-> t.max_nvme_temp,
     cpu_errors |-> errors["cpu"],
     memory_errors |-> errors["memory"],
     nvme_errors |-> errors["nvme"]]

\* -------------------------------------------------------- run_stress_test
\* Starting: spawn the enabled runners
SpawnRunners ==
    /\ pc = "start"
    /\ cpu' = [i \in Threads |->
                 IF i <= NumCpuThreads(config)
                 THEN [pc |-> "check", iteration |-> 0] ELSE cpu[i]]
    /\ mem' = [i \in Threads |->
                 IF i <= NumMemThreads(config)
                 THEN [pc |-> "check", iteration |-> 0] ELSE mem[i]]
    /\ nvme' = IF NvmeSpawned(config, nvme_info)
               THEN [pc |-> "create", iteration |-> 0] ELSE nvme
    /\ video' = IF VideoSpawned(config) THEN [pc |-> "setup", iteration |-> 0] ELSE video
    /\ pc' = "loop"
    /\ UNCHANGED <<config, nvme_info, frame, call, ret, invoked, fs, running, errors, now, slept, chan,
                   tui, ctrlc, result, report, env, tele, stats, failures, hist>>

\* top of the monitoring loop: cancellation check, deadline check, then one sample
LoopTop ==
    /\ pc = "loop"
    /\ IF ~running
       THEN /\ pc' = "stop"
            /\ UNCHANGED <<running, tele, stats, hist>>
       ELSE IF now >= config.duration
       THEN /\ running' = StoreStop(running)
            /\ hist' = NoteShutdown(hist, running)
            /\ pc' = "stop"
            /\ UNCHANGED <<tele, stats>>
       ELSE \E reading \in env.temps, word \in env.raws,
               ntemp \in (IF nvme_info THEN env.nvme_temps ELSE {None}) :
            LET temp == get_cpu_temp(reading)
                raw == get_throttle_status(word)
            IN
            /\ tele' = Track(tele, temp, ntemp, raw)
            /\ stats' = <<BuildStats(tele', now, temp, raw)>>
            /\ hist' = NoteSample(hist, tele, tele', raw, reading)
            /\ pc' = "send"
            /\ UNCHANGED running
    /\ UNCHANGED <<config, nvme_info, frame, call, ret, invoked, fs, errors, now, slept, chan, tui, ctrlc,
                   cpu, mem, nvme, video, result, report, env, failures>>

\* the receiver half is gone once the TUI task has returned
RxDropped == tui = "exited"

\* stats_tx.send(stats).await: Err at once when the receiver is gone, queued
\* when there is room, pending otherwise
SendReady(q, dropped) == dropped \/ Len(q) < ChanCap

SendStats ==
    /\ pc = "send"
    /\ SendReady(chan, RxDropped)
    /\ chan' = IF RxDropped THEN chan ELSE Append(chan, stats[1])
    /\ stats' = <<>>
    /\ slept' = FALSE
    /\ pc' = "sleep"
    /\ UNCHANGED <<config, nvme_info, frame, call, ret, invoked, fs, running, errors, now, tui, ctrlc,
                   cpu, mem, nvme, video, result, report, env, tele, failures, hist>>

\* tokio::time::sleep(1 s) completes
WakeUp ==
    /\ pc = "sleep"
    /\ slept
    /\ slept' = FALSE
    /\ pc' = "loop"
    /\ UNCHANGED <<config, nvme_info, frame, call, ret, invoked, fs, running, errors, now, chan,
                   tui, ctrlc, cpu, mem, nvme, video, result, report, env, tele,
                   stats, failures, hist>>

\* "Signal stop" after the loop
SignalStop ==
    /\ pc = "stop"
    /\ running' = StoreStop(running)
    /\ hist' = NoteShutdown(hist, running)
    /\ pc' = "join"
    /\ UNCHANGED <<config, nvme_info, frame, call, ret, invoked, fs, errors, now, slept, chan, tui, ctrlc,
                   cpu, mem, nvme, video, result, report, env, tele, stats, failures>>

\* a join that returns without waiting for the runner
JoinDetached(t) == TRUE

\* handle.join() / handle.await returns: the runner was never spawned or has returned
Joinable(t) == t.pc \in {"idle", "exited"}

\* Draining: join every cpu handle, every memory handle, await the storage
\* task, join the video handle; each returns once that runner has returned
JoinRunners ==
    /\ pc = "join"
    /\ \A i \in Threads : Joinable(cpu[i])
    /\ \A i \in Threads : Joinable(mem[i])
    /\ Joinable(nvme)
    /\ Joinable(video)
    /\ pc' = "result"
    /\ UNCHANGED <<config, nvme_info, frame, call, ret, invoked, fs, running, errors, now, slept, chan,
                   tui, ctrlc, cpu, mem, nvme, video, result, report, env, tele,
                   stats, failures, hist>>

RECURSIVE SumSeq(_)
SumSeq(s) == IF s = <<>> THEN 0 ELSE Head(s) + SumSeq(Tail(s))

\* an average that leaves the first sample out of the sum
AvgTempSkipFirst(samples) ==
    IF samples = <<>> THEN [num |-> 0, den |-> 1]
    ELSE [num |-> SumSeq(Tail(samples)), den |-> Len(samples)]

\* average temperature as the fraction sum/len; 0.0 when there is no sample
AvgTemp(samples) ==
    IF samples = <<>> THEN [num |-> 0, den |-> 1]
    ELSE [num |-> SumSeq(samples), den |-> Len(samples)]

\* start_time.elapsed() >= config.duration, read while the result is built
Completed(t, duration) == t >= duration

TestResult(e, t, clock, duration) ==
    [cpu_errors |-> e["cpu"],
     memory_errors |-> e["memory"],
     nvme_errors |-> e["nvme"],
     video_errors |-> e["video"],
     throttle_events |-> t.throttle_events,
     under_voltage_events |-> t.under_voltage_events,
     max_cpu_temp |-> t.max_cpu_temp,
     avg_cpu_temp |-> AvgTemp(t.temp_samples),
     max_nvme_temp |-> t.max_nvme_temp,
     completed |-> Completed(clock, duration),
     duration_secs |-> clock]

\* Done: the TestResult is returned to main
BuildResult ==
    /\ pc = "result"
    /\ result' = <<TestResult(errors, tele, now, config.duration)>>
    /\ pc' = "await_ui"
    /\ UNCHANGED <<config, nvme_info, frame, call, ret, invoked, fs, running, errors, now, slept, chan,
                   tui, ctrlc, cpu, mem, nvme, video, report, env, tele, stats,
                   failures, hist>>

\* ------------------------------------------------------------ main's tail
\* "Wait for UI to finish": handle.await on the TUI task, nothing in simple mode
AwaitUi ==
    /\ pc = "await_ui"
    /\ tui \in {"none", "exited"}
    /\ pc' = "report"
    /\ UNCHANGED <<config, nvme_info, frame, call, ret, invoked, fs, running, errors, now, slept, chan,
                   tui, ctrlc, cpu, mem, nvme, video, result, report, env, tele,
                   stats, failures, hist>>

\* the lists of matched kernel-log lines main may collect
IoErrorLists == UNION {[1..n -> {"I/O error"}] : n \in 0..MaxIoLines}

\* io_errors.len() as u32
U32(n) == (n % 65536) + 65536 * ((n \div 65536) % 65536)

\* a report that leaves the kernel-log lines out of the verdict
StorageLogIgnored(io_errors) == TRUE

\* io_errors.is_empty() as it enters nvme_passed
StorageLogClean(io_errors) == io_errors = <<>>

generate_report(r, io_errors) ==
    LET cpu_passed == r.cpu_errors = 0
        memory_passed == r.memory_errors = 0
        nvme_passed == r.nvme_errors = 0 /\ StorageLogClean(io_errors)
        video_passed == r.video_errors = 0
        passed == /\ cpu_passed
                  /\ memory_passed
                  /\ nvme_passed
                  /\ video_passed
                  /\ r.throttle_events = 0
                  /\ r.under_voltage_events = 0
    IN [passed |-> passed,
        duration_secs |-> r.duration_secs,
        cpu_stress_passed |-> cpu_passed,
        memory_stress_passed |-> memory_passed,
        nvme_stress_passed |-> nvme_passed,
        video_stress_passed |-> video_passed,
        max_cpu_temp |-> r.max_cpu_temp,
        avg_cpu_temp |-> r.avg_cpu_temp,
        max_nvme_temp |-> r.max_nvme_temp,
        throttle_events |-> r.throttle_events,
        under_voltage_events |-> r.under_voltage_events,
        io_errors |-> U32(Len(io_errors)),
        smart_warnings |-> 0]

\* main: collect the kernel-log lines, generate the final report
GenerateReport ==
    /\ pc = "report"
    /\ \E io \in IoErrorLists :
          report' = <<[io |-> io, out |-> generate_report(result[1], io)]>>
    /\ pc' = "end"
    /\ UNCHANGED <<config, nvme_info, frame, call, ret, invoked, fs, running, errors, now, slept, chan,
                   tui, ctrlc, cpu, mem, nvme, video, result, env, tele, stats,
                   failures, hist>>

\* ------------------------------------------------------ the Ctrl+C task
CtrlC ==
    /\ ctrlc = "armed"
    /\ pc # "end"
    /\ running' = StoreStop(running)
    /\ hist' = NoteShutdown(hist, running)
    /\ ctrlc' = "fired"
    /\ UNCHANGED <<config, nvme_info, frame, call, ret, invoked, fs, errors, now, pc, slept, chan, tui,
                   cpu, mem, nvme, video, result, report, env, tele, stats, failures>>

\* ------------------------------------------------------------- run_tui
\* init_terminal: on failure the task returns and drops the receiver
TuiInit ==
    /\ tui = "init"
    /\ \E ok \in BOOLEAN : tui' = IF ok THEN "loop" ELSE "exited"
    /\ UNCHANGED <<config, nvme_info, frame, call, ret, invoked, fs, running, errors, now, pc, slept, chan,
                   ctrlc, cpu, mem, nvme, video, result, report, env, tele, stats,
                   failures, hist>>

TuiKeys == {"none", "q", "Q", "Esc", "other"}

QuitKeys == {"q", "Q", "Esc"}

\* one pass of the event loop: stop check, key poll, drain with try_recv, draw
TuiLoop ==
    /\ tui = "loop"
    /\ IF ~running
       THEN /\ tui' = "exited"
            /\ UNCHANGED <<running, chan, hist>>
       ELSE \E key \in TuiKeys, drawn \in BOOLEAN :
            IF key \in QuitKeys
            THEN /\ running' = StoreStop(running)
                 /\ hist' = NoteShutdown(hist, running)
                 /\ tui' = "exited"
                 /\ UNCHANGED chan
            ELSE /\ chan' = <<>>
                 /\ tui' = IF drawn THEN "loop" ELSE "exited"
                 /\ UNCHANGED <<running, hist>>
    /\ UNCHANGED <<config, nvme_info, frame, call, ret, invoked, fs, errors, now, pc, slept, ctrlc,
                   cpu, mem, nvme, video, result, report, env, tele, stats, failures>>

\* a runner that has returned (its locals are gone)
Exited == [pc |-> "exited", iteration |-> 0]

\* --------------------------------------------------------- run_cpu_stress
\* Each runner step below holds exactly one access to shared state: the load
\* of `running` (followed by the oracle, which is local work), or the
\* fetch_add on the error counter (followed by the local iteration update).

NextIteration(it, n) == (it + 1) % n

\* the oracle chosen by iteration % 4 in run_cpu_stress
CpuOracle(it) ==
    CASE it % CPU_ORACLES = 0 -> "dft"
      [] it % CPU_ORACLES = 1 -> "matrix"
      [] it % CPU_ORACLES = 2 -> "prime"
      [] OTHER -> "aes"

\* a runner thread after one oracle invocation: a pass goes straight to the
\* next iteration, a failure has its fetch_add pending
AfterOracle(t, ok, n) ==
    IF ok THEN [pc |-> "check", iteration |-> NextIteration(t.iteration, n)]
    ELSE [t EXCEPT !.pc = "failed"]

\* a runner that runs the failed oracle again instead of moving on
AfterCountRetry(t, n) == [pc |-> "check", iteration |-> t.iteration]

\* a runner thread after the fetch_add of a failed invocation
AfterCount(t, n) == [pc |-> "check", iteration |-> NextIteration(t.iteration, n)]

NoteFailure(f, c, ok) == IF ok THEN f ELSE [f EXCEPT ![c] = @ + 1]

\* while running.load(Ordering::Relaxed) { match iteration % 4 { ... } }
CpuIterate(i) ==
    /\ cpu[i].pc = "check"
    /\ IF ~running
       THEN /\ cpu' = [cpu EXCEPT ![i] = Exited]
            /\ invoked' = [invoked EXCEPT !.cpu[i] = "none"]
            /\ UNCHANGED failures
       ELSE \E ok \in OracleOutcomes :
            /\ cpu' = [cpu EXCEPT ![i] = AfterOracle(@, ok, CPU_ORACLES)]
            /\ invoked' = [invoked EXCEPT !.cpu[i] = CpuOracle(cpu[i].iteration)]
            /\ failures' = NoteFailure(failures, "cpu", ok)
    /\ UNCHANGED <<config, nvme_info, frame, call, ret, fs, running, errors, now, pc, slept, chan,
                   tui, ctrlc, mem, nvme, video, result, report, env, tele, stats,
                   hist>>

\* errors.fetch_add(1, Ordering::Relaxed); iteration = iteration.wrapping_add(1)
CpuCount(i) ==
    /\ cpu[i].pc = "failed"
    /\ errors' = FetchAdd(errors, "cpu")
    /\ cpu' = [cpu EXCEPT ![i] = AfterCount(@, CPU_ORACLES)]
    /\ UNCHANGED <<config, nvme_info, frame, call, ret, invoked, fs, running, now, pc, slept, chan, tui, ctrlc,
                   mem, nvme, video, result, report, env, tele, stats, failures, hist>>

\* ------------------------------------------------------ run_memory_stress
\* the oracle chosen by iteration % 4 in run_memory_stress
MemOracle(it) ==
    CASE it % MEM_ORACLES = 0 -> "sequential"
      [] it % MEM_ORACLES = 1 -> "random_access"
      [] it % MEM_ORACLES = 2 -> "fill_verify"
      [] OTHER -> "stream"

MemIterate(i) ==
    /\ mem[i].pc = "check"
    /\ IF ~running
       THEN /\ mem' = [mem EXCEPT ![i] = Exited]
            /\ invoked' = [invoked EXCEPT !.memory[i] = "none"]
            /\ UNCHANGED failures
       ELSE \E ok \in OracleOutcomes :
            /\ mem' = [mem EXCEPT ![i] = AfterOracle(@, ok, MEM_ORACLES)]
            /\ invoked' = [invoked EXCEPT !.memory[i] = MemOracle(mem[i].iteration)]
            /\ failures' = NoteFailure(failures, "memory", ok)
    /\ UNCHANGED <<config, nvme_info, frame, call, ret, fs, running, errors, now, pc, slept, chan,
                   tui, ctrlc, cpu, nvme, video, result, report, env, tele, stats,
                   hist>>

MemCount(i) ==
    /\ mem[i].pc = "failed"
    /\ errors' = FetchAdd(errors, "memory")
    /\ mem' = [mem EXCEPT ![i] = AfterCount(@, MEM_ORACLES)]
    /\ UNCHANGED <<config, nvme_info, frame, call, ret, invoked, fs, running, now, pc, slept, chan, tui, ctrlc,
                   cpu, nvme, video, result, report, env, tele, stats, failures, hist>>

\* -------------------------------------------------------- run_nvme_stress
\* the cycle chosen by iteration % 3 in run_nvme_stress
NvmeOracle(it) ==
    CASE it % NVME_ORACLES = 0 -> "random_4k"
      [] it % NVME_ORACLES = 1 -> "sequential"
      [] OTHER -> "mixed"

\* where the runner is after create_test_file returned Err and the error was counted
AfterCreateFailure == Exited

\* create_test_file: a file of the right size is kept; a file of the wrong
\* size is removed first (Err when that fails); File::create may fail (no file),
\* a write or the sync may fail (a partial file stays); Ok leaves the full file
create_test_file(file) ==
    IF file = "full" THEN {[ok |-> TRUE, file |-> "full"]}
    ELSE {[ok |-> TRUE, file |-> "full"],
          [ok |-> FALSE, file |-> "partial"],
          [ok |-> FALSE, file |-> "absent"]}

\* create_test_file; on Err: errors.fetch_add(1), return
NvmeCreate ==
    /\ nvme.pc = "create"
    /\ \E c \in create_test_file(fs.file) :
          /\ fs' = [fs EXCEPT !.file = c.file]
          /\ IF c.ok
             THEN /\ nvme' = [nvme EXCEPT !.pc = "check"]
                  /\ UNCHANGED <<errors, hist>>
             ELSE /\ errors' = FetchAdd(errors, "nvme")
                  /\ nvme' = AfterCreateFailure
                  /\ hist' = [hist EXCEPT !.create_failed = TRUE]
    /\ UNCHANGED <<config, nvme_info, frame, call, ret, invoked, running, now, pc, slept, chan,
                   tui, ctrlc, cpu, mem, video, result, report, env, tele, stats,
                   failures>>

\* OpenOptions::new().read(true).write(true).open(path) at the head of each cycle
OpenSucceeds(file) == file # "absent"

\* outcomes of one storage cycle: false when the open fails, else pass or I/O failure
CycleOutcomes(file) ==
    IF OpenSucceeds(file) THEN OracleOutcomes
    ELSE IF TotalFailures < MaxErrors THEN {FALSE} ELSE {}

\* let _ = std::fs::remove_file(&test_path): best effort, the result is dropped
remove_file(file) == {"absent", file}

\* while running.load(Ordering::Relaxed) { match iteration % 3 { ... } }
\* and, once the loop is left, the cleanup of the test file
NvmeIterate ==
    /\ nvme.pc = "check"
    /\ IF ~running
       THEN /\ nvme' = Exited
            /\ \E f \in remove_file(fs.file) : fs' = [file |-> f, cleanup |-> TRUE]
            /\ invoked' = [invoked EXCEPT !.nvme = "none"]
            /\ UNCHANGED <<failures, hist>>
       ELSE \E ok \in CycleOutcomes(fs.file) :
            /\ nvme' = AfterOracle(nvme, ok, NVME_ORACLES)
            /\ invoked' = [invoked EXCEPT !.nvme = NvmeOracle(nvme.iteration)]
            /\ failures' = NoteFailure(failures, "nvme", ok)
            /\ hist' = [hist EXCEPT !.nvme_ran = TRUE,
                                    !.open_failed = @ \/ ~OpenSucceeds(fs.file)]
            /\ UNCHANGED fs
    /\ UNCHANGED <<config, nvme_info, frame, call, ret, running, errors, now, pc, slept, chan,
                   tui, ctrlc, cpu, mem, video, result, report, env, tele, stats>>

NvmeCount ==
    /\ nvme.pc = "failed"
    /\ errors' = FetchAdd(errors, "nvme")
    /\ nvme' = AfterCount(nvme, NVME_ORACLES)
    /\ UNCHANGED <<config, nvme_info, frame, call, ret, invoked, fs, running, now, pc, slept, chan, tui, ctrlc,
                   cpu, mem, video, result, report, env, tele, stats, failures, hist>>

\* ------------------------------------------------------- run_video_stress
\* a single oracle: run_encode_cycle
VIDEO_ORACLES == 1

\* encoder selection and create_test_video: without an encoder or without the
\* test input the runner returns, counting nothing
VideoSetup ==
    /\ video.pc = "setup"
    /\ \E encoder \in BOOLEAN, input \in BOOLEAN :
          video' = IF encoder /\ input THEN [pc |-> "check", iteration |-> 0] ELSE Exited
    /\ UNCHANGED <<config, nvme_info, frame, call, ret, invoked, fs, running, errors, now, pc, slept, chan,
                   tui, ctrlc, cpu, mem, nvme, result, report, env, tele, stats,
                   failures, hist>>

\* while running.load(Ordering::Relaxed) { run_encode_cycle ... }
VideoIterate ==
    /\ video.pc = "check"
    /\ IF ~running
       THEN /\ video' = Exited
            /\ UNCHANGED failures
       ELSE \E ok \in OracleOutcomes :
            /\ video' = AfterOracle(video, ok, VIDEO_ORACLES)
            /\ failures' = NoteFailure(failures, "video", ok)
    /\ UNCHANGED <<config, nvme_info, frame, call, ret, invoked, fs, running, errors, now, pc, slept, chan,
                   tui, ctrlc, cpu, mem, nvme, result, report, env, tele, stats,
                   hist>>

VideoCount ==
    /\ video.pc = "failed"
    /\ errors' = FetchAdd(errors, "video")
    /\ video' = AfterCount(video, VIDEO_ORACLES)
    /\ UNCHANGED <<config, nvme_info, frame, call, ret, invoked, fs, running, now, pc, slept, chan, tui, ctrlc,
                   cpu, mem, nvme, result, report, env, tele, stats, failures, hist>>

\* ------------------------------------------------------------- the clock
Tick ==
    /\ pc \notin {"await_ui", "report", "end"}
    /\ now < MaxTime \/ (pc = "sleep" /\ ~slept)
    /\ now' = now + 1
    /\ slept' = (pc = "sleep")
    /\ UNCHANGED <<config, nvme_info, frame, call, ret, invoked, fs, running, errors, pc, chan,
                   tui, ctrlc, cpu, mem, nvme, video, result, report, env, tele,
                   stats, failures, hist>>

Next ==
    \/ SpawnRunners
    \/ LoopTop
    \/ SendStats
    \/ WakeUp
    \/ SignalStop
    \/ JoinRunners
    \/ BuildResult
    \/ AwaitUi
    \/ GenerateReport
    \/ CtrlC
    \/ TuiInit
    \/ TuiLoop
    \/ \E i \in Threads : CpuIterate(i)
    \/ \E i \in Threads : CpuCount(i)
    \/ \E i \in Threads : MemIterate(i)
    \/ \E i \in Threads : MemCount(i)
    \/ NvmeCreate
    \/ NvmeIterate
    \/ NvmeCount
    \/ VideoSetup
    \/ VideoIterate
    \/ VideoCount
    \/ Tick

Spec == Init /\ [][Next]_vars

\* ------------------------------------------------ fair scheduling
\* Every thread and task that can take a step eventually does, and time
\* passes.  No fairness for the operator: Ctrl+C may never be pressed.
MainStep ==
    \/ SpawnRunners
    \/ LoopTop
    \/ SendStats
    \/ WakeUp
    \/ SignalStop
    \/ JoinRunners
    \/ BuildResult
    \/ AwaitUi
    \/ GenerateReport

\* a pass of the TUI loop that the task makes on its own: it finds the flag
\* set, or it polls no quit key, drains the channel and draws without error
TuiRoutine == TuiLoop /\ running' = running /\ (~running \/ tui' = "loop")

Fairness ==
    /\ WF_vars(MainStep)
    /\ WF_vars(TuiInit \/ TuiRoutine)
    /\ \A i \in Threads : WF_vars(CpuIterate(i) \/ CpuCount(i))
    /\ \A i \in Threads : WF_vars(MemIterate(i) \/ MemCount(i))
    /\ WF_vars(NvmeCreate \/ NvmeIterate \/ NvmeCount)
    /\ WF_vars(VideoSetup \/ VideoIterate \/ VideoCount)
    /\ WF_vars(Tick)

FairSpec == Init /\ [][Next]_vars /\ Fairness

\* ------------------------------------------- concurrent compute threads
\* simple mode, ConcThreads compute threads, with or without the video thread
ConcInit ==
    /\ config \in Configs
    /\ config.cpu /\ config.threads = ConcThreads
    /\ ~config.memory /\ ~config.nvme
    /\ nvme_info = FALSE
    /\ tui = UiStart("Simple")
    /\ fs = FsStart
    /\ Uncalled
    /\ Boot

ConcNext ==
    \/ SpawnRunners
    \/ LoopTop
    \/ SendStats
    \/ WakeUp
    \/ SignalStop
    \/ JoinRunners
    \/ BuildResult
    \/ AwaitUi
    \/ GenerateReport
    \/ CtrlC
    \/ \E i \in Threads : CpuIterate(i)
    \/ \E i \in Threads : CpuCount(i)
    \/ VideoSetup
    \/ VideoIterate
    \/ VideoCount
    \/ Tick

ConcSpec == ConcInit /\ [][ConcNext]_vars

\* ------------------------------------------- a run with nothing enabled
\* no category is enabled: the orchestrator, the TUI task and Ctrl+C only
IdleInit ==
    /\ Init
    /\ ~config.cpu /\ ~config.memory /\ ~config.nvme /\ ~config.video

\* the clock as the monitoring loop paces it: a tick is one
\* tokio::time::sleep(Duration::from_secs(1)), everything else takes no time
SleepTick ==
    /\ pc = "sleep"
    /\ ~slept
    /\ Tick

IdleNext ==
    \/ SpawnRunners
    \/ LoopTop
    \/ SendStats
    \/ WakeUp
    \/ SignalStop
    \/ JoinRunners
    \/ BuildResult
    \/ AwaitUi
    \/ GenerateReport
    \/ CtrlC
    \/ TuiInit
    \/ TuiLoop
    \/ SleepTick

\* the orchestrator and the TUI task are scheduled, sleeps end; Ctrl+C, the
\* quit keys and a draw error may never come
IdleFairness ==
    /\ WF_vars(MainStep)
    /\ WF_vars(TuiInit \/ TuiRoutine)
    /\ WF_vars(SleepTick)

IdleSpec == IdleInit /\ [][IdleNext]_vars /\ IdleFairness

\* ------------------------------------------- the storage runner on its own
\* another process deletes the test file while the runner is in its loop
FileVanishes ==
    /\ nvme.pc \in {"check", "failed"}
    /\ fs.file # "absent"
    /\ fs' = [fs EXCEPT !.file = "absent"]
    /\ UNCHANGED <<config, nvme_info, frame, call, ret, invoked, running, errors, now, pc, slept, chan,
                   tui, ctrlc, cpu, mem, nvme, video, result, report, env, tele,
                   stats, failures, hist>>

\* simple mode, the storage runner alone, whatever an earlier run left on disk
StorageInit ==
    /\ config \in Configs
    /\ config.nvme /\ ~config.cpu /\ ~config.memory /\ ~config.video
    /\ nvme_info = TRUE
    /\ tui = UiStart("Simple")
    /\ fs \in [file : {"absent", "partial", "full"}, cleanup : {FALSE}]
    /\ Uncalled
    /\ Boot

StorageNext ==
    \/ SpawnRunners
    \/ LoopTop
    \/ SendStats
    \/ WakeUp
    \/ SignalStop
    \/ JoinRunners
    \/ BuildResult
    \/ CtrlC
    \/ NvmeCreate
    \/ NvmeIterate
    \/ NvmeCount
    \/ FileVanishes
    \/ Tick

StorageSpec == StorageInit /\ [][StorageNext]_vars

\* ------------------------------------ the storage runner, one I/O at a time
\* the length of every pass in I/O operations: TEST_FILE_SIZE in 1 MiB chunks
\* (create_test_file), in 128 KiB blocks (run_sequential_stress), and the
\* 1000 operations of a 4K cycle, scaled down
MaxChunks == 3

\* an I/O operation may fail while the error counter has room
IoOutcomes == IF errors["nvme"] < MaxErrors THEN BOOLEAN ELSE {TRUE}

\* the locals of run_nvme_stress: position, cycle, operations done in the
\* current pass, the value the cycle returns, and (history) how many operations
\* ran after the flag was cleared and whether an I/O call of the cycle failed
NvmeFrame(at) ==
    [fn |-> "run_nvme_stress", at |-> at, iteration |-> 0, n |-> 0, late |-> 0,
     ok |-> TRUE, failed |-> FALSE]

\* an I/O call of the cycle returned Err: the cycle returns false
IoFailed(f) == [f EXCEPT !.at = "count", !.ok = FALSE, !.failed = TRUE]

\* a cycle that succeeds only when it has done all its operations
EndOfCycleComplete(f) == [f EXCEPT !.at = "count", !.ok = f.n = MaxChunks]

\* the final `true` of a cycle
EndOfCycle(f) == [f EXCEPT !.at = "count", !.ok = TRUE]

\* one more operation of the current pass has completed
AfterIo(f, at) ==
    [f EXCEPT !.at = at, !.n = @ + 1, !.late = IF running THEN @ ELSE @ + 1]

\* the positions inside run_random_4k_stress, run_sequential_stress and
\* run_mixed_stress, and the counting of their result
CyclePositions ==
    {"op_check", "op", "write_check", "write", "read_check", "read", "sync", "count"}

\* the first position of the cycle chosen by iteration % 3
CycleStart(it) == IF NvmeOracle(it) = "sequential" THEN "write_check" ELSE "op_check"

\* create_test_file up to File::create: a file of the right size is kept
CreateTestFileOpen ==
    /\ frame.fn = "run_nvme_stress" /\ frame.at = "create"
    /\ IF fs.file = "full"
       THEN /\ frame' = [frame EXCEPT !.at = "loop"]
            /\ UNCHANGED <<fs, errors>>
       ELSE \E ok \in IoOutcomes :
            IF ok
            THEN /\ fs' = [fs EXCEPT !.file = "partial"]
                 /\ frame' = [frame EXCEPT !.at = "create_write"]
                 /\ UNCHANGED errors
            ELSE /\ errors' = FetchAdd(errors, "nvme")
                 /\ frame' = [frame EXCEPT !.at = "exited"]
                 /\ UNCHANGED fs
    /\ UNCHANGED <<config, nvme_info, call, ret, invoked, running, now, pc, slept,
                   chan, tui, ctrlc, cpu, mem, nvme, video, result, report, env,
                   tele, stats, failures, hist>>

\* while written < TEST_FILE_SIZE { rng.fill; file.write_all(&buffer)?; written += len }
\* (the loop does not read `running`)
CreateTestFileWrite ==
    /\ frame.fn = "run_nvme_stress" /\ frame.at = "create_write"
    /\ frame.n < MaxChunks
    /\ \E ok \in IoOutcomes :
          IF ok
          THEN /\ frame' = AfterIo(frame, "create_write")
               /\ UNCHANGED errors
          ELSE /\ errors' = FetchAdd(errors, "nvme")
               /\ frame' = [frame EXCEPT !.at = "exited"]
    /\ UNCHANGED <<config, nvme_info, call, ret, invoked, fs, running, now, pc, slept,
                   chan, tui, ctrlc, cpu, mem, nvme, video, result, report, env,
                   tele, stats, failures, hist>>

\* file.sync_all()?; Ok(())
CreateTestFileSync ==
    /\ frame.fn = "run_nvme_stress" /\ frame.at = "create_write"
    /\ frame.n = MaxChunks
    /\ \E ok \in IoOutcomes :
          IF ok
          THEN /\ fs' = [fs EXCEPT !.file = "full"]
               /\ frame' = [frame EXCEPT !.at = "loop", !.n = 0, !.late = 0]
               /\ UNCHANGED errors
          ELSE /\ errors' = FetchAdd(errors, "nvme")
               /\ frame' = [frame EXCEPT !.at = "exited"]
               /\ UNCHANGED fs
    /\ UNCHANGED <<config, nvme_info, call, ret, invoked, running, now, pc, slept,
                   chan, tui, ctrlc, cpu, mem, nvme, video, result, report, env,
                   tele, stats, failures, hist>>

\* while running.load(Ordering::Relaxed): the cycle opens the file (Err:
\* return false); after the loop, remove_file
NvmeLoop ==
    /\ frame.fn = "run_nvme_stress" /\ frame.at = "loop"
    /\ IF running
       THEN /\ \E ok \in IoOutcomes :
                 LET f == [frame EXCEPT !.n = 0, !.late = 0, !.ok = TRUE,
                                        !.failed = FALSE]
                 IN  frame' = IF ok THEN [f EXCEPT !.at = CycleStart(frame.iteration)]
                              ELSE IoFailed(f)
            /\ UNCHANGED fs
       ELSE /\ frame' = [frame EXCEPT !.at = "exited"]
            /\ \E f \in remove_file(fs.file) : fs' = [file |-> f, cleanup |-> TRUE]
    /\ UNCHANGED <<config, nvme_info, call, ret, invoked, running, errors, now, pc,
                   slept, chan, tui, ctrlc, cpu, mem, nvme, video, result, report,
                   env, tele, stats, failures, hist>>

\* the head of a pass: `if !running.load() { break }` in the 4K cycles,
\* `while written < TEST_FILE_SIZE && running.load()` in the sequential one
CycleCheck ==
    /\ frame.fn = "run_nvme_stress"
    /\ frame.at \in {"op_check", "write_check", "read_check"}
    /\ LET go == frame.n < MaxChunks /\ running
       IN  frame' =
             CASE frame.at = "op_check" ->
                    [frame EXCEPT !.at = IF go THEN "op" ELSE "sync"]
               [] frame.at = "write_check" ->
                    [frame EXCEPT !.at = IF go THEN "write" ELSE "sync"]
               [] OTHER ->
                    IF go THEN [frame EXCEPT !.at = "read"]
                    ELSE EndOfCycle(frame)
    /\ UNCHANGED <<config, nvme_info, call, ret, invoked, fs, running, errors, now,
                   pc, slept, chan, tui, ctrlc, cpu, mem, nvme, video, result,
                   report, env, tele, stats, failures, hist>>

\* one 4K operation or one 128 KiB block; an I/O error returns false
CycleIo ==
    /\ frame.fn = "run_nvme_stress"
    /\ frame.at \in {"op", "write", "read"}
    /\ \E ok \in IoOutcomes :
          frame' =
            IF ~ok THEN IoFailed(frame)
            ELSE CASE frame.at = "op" -> AfterIo(frame, "op_check")
                   [] frame.at = "write" -> AfterIo(frame, "write_check")
                   [] OTHER -> AfterIo(frame, "read_check")
    /\ UNCHANGED <<config, nvme_info, call, ret, invoked, fs, running, errors, now,
                   pc, slept, chan, tui, ctrlc, cpu, mem, nvme, video, result,
                   report, env, tele, stats, failures, hist>>

\* file.sync_all(): ends a 4K cycle, or separates the sequential write pass
\* from the read pass
CycleSync ==
    /\ frame.fn = "run_nvme_stress" /\ frame.at = "sync"
    /\ \E ok \in IoOutcomes :
          frame' =
            IF ~ok THEN IoFailed(frame)
            ELSE IF NvmeOracle(frame.iteration) = "sequential"
                 THEN [frame EXCEPT !.at = "read_check", !.n = 0, !.late = 0]
                 ELSE EndOfCycle(frame)
    /\ UNCHANGED <<config, nvme_info, call, ret, invoked, fs, running, errors, now,
                   pc, slept, chan, tui, ctrlc, cpu, mem, nvme, video, result,
                   report, env, tele, stats, failures, hist>>

\* if !run_..._stress(..) { errors.fetch_add(1) }; iteration = iteration.wrapping_add(1)
CycleCount ==
    /\ frame.fn = "run_nvme_stress" /\ frame.at = "count"
    /\ errors' = IF frame.ok THEN errors ELSE FetchAdd(errors, "nvme")
    /\ frame' = [frame EXCEPT !.at = "loop",
                              !.iteration = NextIteration(@, NVME_ORACLES)]
    /\ UNCHANGED <<config, nvme_info, call, ret, invoked, fs, running, now, pc,
                   slept, chan, tui, ctrlc, cpu, mem, nvme, video, result, report,
                   env, tele, stats, failures, hist>>

\* the storage runner alone, whatever an earlier run left on disk; the flag
\* is cleared by Ctrl+C at any moment
ChunkInit ==
    /\ config = [cpu |-> FALSE, memory |-> FALSE, nvme |-> TRUE, video |-> FALSE,
                 threads |-> 1, duration |-> 1]
    /\ nvme_info = TRUE
    /\ tui = UiStart("Simple")
    /\ fs \in [file : {"absent", "partial", "full"}, cleanup : {FALSE}]
    /\ call = NoCall
    /\ ret = <<>>
    /\ frame = NvmeFrame("create")
    /\ Boot

ChunkNext ==
    \/ CreateTestFileOpen
    \/ CreateTestFileWrite
    \/ CreateTestFileSync
    \/ NvmeLoop
    \/ CycleCheck
    \/ CycleIo
    \/ CycleSync
    \/ CycleCount
    \/ CtrlC

ChunkSpec == ChunkInit /\ [][ChunkNext]_vars

\* ------------------------------------------- the sampler on its own
\* sampling ticks of the telemetry run
TeleTicks == 4

\* register values the firmware may return: clear, under-voltage now,
\* throttled now (0x4), throttled now and occurred (0x40004)
TeleRaws == {0, 1, 4, 262148}

\* TUI mode, no runner enabled, a throttle register that moves
TeleInit ==
    /\ config = [cpu |-> FALSE, memory |-> FALSE, nvme |-> FALSE, video |-> FALSE,
                 threads |-> 1, duration |-> TeleTicks]
    /\ nvme_info = FALSE
    /\ tui = UiStart("Tui")
    /\ fs = FsStart
    /\ frame = NoFrame
    /\ Uncalled
    /\ running = TRUE
    /\ errors = [c \in Categories |-> 0]
    /\ now = 0
    /\ pc = "start"
    /\ slept = FALSE
    /\ chan = <<>>
    /\ ctrlc = "armed"
    /\ cpu = [i \in Threads |-> [pc |-> "idle", iteration |-> 0]]
    /\ mem = [i \in Threads |-> [pc |-> "idle", iteration |-> 0]]
    /\ nvme = [pc |-> "idle", iteration |-> 0]
    /\ video = [pc |-> "idle", iteration |-> 0]
    /\ result = <<>>
    /\ report = <<>>
    /\ env = [temps |-> {50}, raws |-> TeleRaws, nvme_temps |-> {None}]
    /\ tele = Tele0
    /\ stats = <<>>
    /\ invoked = NoneInvoked
    /\ failures = [c \in Categories |-> 0]
    /\ hist = [shutdown |-> "none", create_failed |-> FALSE, nvme_ran |-> FALSE,
               open_failed |-> FALSE, samples |-> <<>>]

TeleNext ==
    \/ SpawnRunners
    \/ LoopTop
    \/ SendStats
    \/ WakeUp
    \/ SignalStop
    \/ JoinRunners
    \/ BuildResult
    \/ TuiInit
    \/ TuiLoop
    \/ Tick

TeleSpec == TeleInit /\ [][TeleNext]_vars

\* ------------------------------------------- temperature telemetry
\* what the temperature query may give on a tick: a failure or one of two
\* readings
TempReadings == {None, 40, 60}

\* TUI mode, no runner enabled, a temperature that moves and a temperature
\* query and a throttle query that may fail
TempInit ==
    /\ config = [cpu |-> FALSE, memory |-> FALSE, nvme |-> FALSE, video |-> FALSE,
                 threads |-> 1, duration |-> TeleTicks]
    /\ nvme_info = FALSE
    /\ tui = UiStart("Tui")
    /\ fs = FsStart
    /\ Uncalled
    /\ running = TRUE
    /\ errors = [c \in Categories |-> 0]
    /\ now = 0
    /\ pc = "start"
    /\ slept = FALSE
    /\ chan = <<>>
    /\ ctrlc = "armed"
    /\ cpu = [i \in Threads |-> [pc |-> "idle", iteration |-> 0]]
    /\ mem = [i \in Threads |-> [pc |-> "idle", iteration |-> 0]]
    /\ nvme = [pc |-> "idle", iteration |-> 0]
    /\ video = [pc |-> "idle", iteration |-> 0]
    /\ result = <<>>
    /\ report = <<>>
    /\ env = [temps |-> TempReadings, raws |-> {None, 4}, nvme_temps |-> {None}]
    /\ tele = Tele0
    /\ stats = <<>>
    /\ invoked = NoneInvoked
    /\ failures = [c \in Categories |-> 0]
    /\ hist = [shutdown |-> "none", create_failed |-> FALSE, nvme_ran |-> FALSE,
               open_failed |-> FALSE, samples |-> <<>>]

TempNext ==
    \/ SpawnRunners
    \/ LoopTop
    \/ SendStats
    \/ WakeUp
    \/ SignalStop
    \/ JoinRunners
    \/ BuildResult
    \/ CtrlC
    \/ TuiInit
    \/ TuiLoop
    \/ Tick

TempSpec == TempInit /\ [][TempNext]_vars

\* ------------------------------------------- spawning and joining
\* simple mode, every configuration, Ctrl+C pressed before run_stress_test
\* starts: each spawned runner finds `running` cleared at its first check
SpawnInit ==
    /\ config \in Configs
    /\ nvme_info \in BOOLEAN
    /\ tui = UiStart("Simple")
    /\ fs = FsStart
    /\ frame = NoFrame
    /\ Uncalled
    /\ running = FALSE
    /\ ctrlc = "fired"
    /\ errors = [c \in Categories |-> 0]
    /\ now = 0
    /\ pc = "start"
    /\ slept = FALSE
    /\ chan = <<>>
    /\ cpu = [i \in Threads |-> [pc |-> "idle", iteration |-> 0]]
    /\ mem = [i \in Threads |-> [pc |-> "idle", iteration |-> 0]]
    /\ nvme = [pc |-> "idle", iteration |-> 0]
    /\ video = [pc |-> "idle", iteration |-> 0]
    /\ result = <<>>
    /\ report = <<>>
    /\ env = QuietEnv
    /\ tele = Tele0
    /\ stats = <<>>
    /\ invoked = NoneInvoked
    /\ failures = [c \in Categories |-> 0]
    /\ hist = [shutdown |-> "early", create_failed |-> FALSE, nvme_ran |-> FALSE,
               open_failed |-> FALSE, samples |-> <<>>]

SpawnNext ==
    \/ SpawnRunners
    \/ LoopTop
    \/ SignalStop
    \/ JoinRunners
    \/ BuildResult
    \/ \E i \in Threads : CpuIterate(i)
    \/ \E i \in Threads : MemIterate(i)
    \/ NvmeCreate
    \/ NvmeIterate
    \/ VideoSetup
    \/ VideoIterate

SpawnSpec == SpawnInit /\ [][SpawnNext]_vars

\* ------------------------------------------- functions called on their own
\* the program is not running: nothing spawned, nothing sampled
Idle ==
    /\ config = [cpu |-> FALSE, memory |-> FALSE, nvme |-> FALSE, video |-> FALSE,
                 threads |-> 1, duration |-> 1]
    /\ nvme_info = FALSE
    /\ tui = UiStart("Simple")
    /\ fs = FsStart
    /\ Boot

RECURSIVE SumPow2(_)
\* the register value whose set bits are exactly the positions in S
SumPow2(S) ==
    IF S = {} THEN 0
    ELSE LET k == CHOOSE x \in S : TRUE IN Pow2(k) + SumPow2(S \ {k})

NowBits == {0, 1, 2, 3}

OccurredBits == {16, 17, 18, 19}

\* positions that carry no flag, low, middle and high in the word
OtherBits == {4, 15, 20, 30}

\* register values handed to from_raw: every combination of the flag bits and
\* of the other bits
DecodeInputs ==
    {[fn |-> "from_raw", bits |-> S, raw |-> SumPow2(S)] :
        S \in SUBSET (NowBits \cup OccurredBits \cup OtherBits)}

\* ThrottleStatus::from_raw(raw) and the two predicates on its result
Decode ==
    /\ call.fn = "from_raw"
    /\ ret = <<>>
    /\ ret' = <<[status |-> from_raw(call.raw),
                 current |-> has_any_current_issue(from_raw(call.raw)),
                 historical |-> has_any_historical_issue(from_raw(call.raw))]>>
    /\ UNCHANGED <<config, nvme_info, frame, call, invoked, fs, running, errors, now, pc, slept, chan,
                   tui, ctrlc, cpu, mem, nvme, video, result, report, env, tele,
                   stats, failures, hist>>

\* ---- memory sizing (run_stress_test and run_memory_stress)
\* sizes are in KiB: every quantity below is a whole number of KiB, total RAM
\* being a whole number of MiB
Max(a, b) == IF a > b THEN a ELSE b

\* MIN_CHUNK_SIZE = 64 * 1024 * 1024 bytes
MIN_CHUNK_SIZE == 64 * 1024

\* every thread is given half of RAM, undivided
AllocationUndivided(total_mb, threads) == (total_mb * 1024) \div 2

\* allocation_per_thread = (total_mb * 1024 * 1024 / 2) / num_mem_threads
AllocationPerThread(total_mb, threads) ==
    ((total_mb * 1024) \div 2) \div Min(2, threads)

\* alloc_size = allocation_bytes.max(MIN_CHUNK_SIZE)
alloc_size(allocation) == Max(allocation, MIN_CHUNK_SIZE)

\* total RAM as get_memory_usage reports it: 0 when /proc/meminfo cannot be
\* read, the small sizes, and 1, 8 and 16 GiB
RamSizes == (0..MaxRamMb) \cup {1024, 8192, 16384}

AllocInputs == [fn : {"alloc"}, total_mb : RamSizes, threads : Threads]

\* the sizing of the memory threads for one configuration with memory enabled
Allocate ==
    /\ call.fn = "alloc"
    /\ ret = <<>>
    /\ ret' = <<[units |-> Min(2, call.threads),
                 per_thread |-> alloc_size(AllocationPerThread(call.total_mb,
                                                               call.threads))]>>
    /\ UNCHANGED <<config, nvme_info, frame, call, invoked, fs, running, errors, now, pc,
                   slept, chan, tui, ctrlc, cpu, mem, nvme, video, result, report,
                   env, tele, stats, failures, hist>>

\* ---- CpuStatSnapshot::calculate_usage
\* u64::saturating_sub
SatSub(a, b) == IF a > b THEN a - b ELSE 0

\* the sum of the seven counters of a core
CoreTotal(c) == c[1] + c[2] + c[3] + c[4] + c[5] + c[6] + c[7]

\* idle + iowait
CoreIdle(c) == c[4] + c[5]

\* total_diff - idle_diff leaves the range of u64
Underflows(c, p) ==
    /\ SatSub(CoreTotal(c), CoreTotal(p)) > 0
    /\ SatSub(CoreIdle(c), CoreIdle(p)) > SatSub(CoreTotal(c), CoreTotal(p))

\* the usage of one core as the fraction num/den, in percent, after the clamp;
\* a wrapped difference is just below 2^64 and clamps to 100
CoreUsage(c, p) ==
    LET total_diff == SatSub(CoreTotal(c), CoreTotal(p))
        idle_diff == SatSub(CoreIdle(c), CoreIdle(p))
    IN IF total_diff > 0
       THEN IF idle_diff > total_diff THEN [num |-> 100, den |-> 1]
            ELSE [num |-> 100 * (total_diff - idle_diff), den |-> total_diff]
       ELSE [num |-> 0, den |-> 1]

\* what the call produces: the vector of usages, or, where a subtraction
\* overflows, a panic (overflow checks on) or the vector with the wrapped value
calculate_usage(curr, prev) ==
    LET usage == [i \in 1..Len(curr) |->
                     IF i <= Len(prev) THEN CoreUsage(curr[i], prev[i])
                     ELSE [num |-> 0, den |-> 1]]
        overflow == \E i \in 1..Len(curr) :
                       i <= Len(prev) /\ Underflows(curr[i], prev[i])
    IN IF overflow
       THEN {[panic |-> TRUE, usage |-> <<>>], [panic |-> FALSE, usage |-> usage]}
       ELSE {[panic |-> FALSE, usage |-> usage]}

\* (user, nice, system, idle, iowait, irq, softirq) of one core
CoreStats ==
    {<<u, 0, 0, i, w, 0, q>> : u \in 0..MaxJiffies, i \in 0..MaxJiffies,
                               w \in 0..1, q \in 0..1}

\* current snapshots of one or two cores, previous snapshots of none or one
UsageInputs ==
    [fn : {"calculate_usage"},
     curr : {<<c>> : c \in CoreStats}
              \cup {<<c, d>> : c \in CoreStats, d \in {<<0, 0, 0, 0, 0, 0, 0>>,
                                                       <<1, 0, 0, 1, 0, 0, 1>>}},
     prev : {<<>>} \cup {<<p>> : p \in CoreStats}]

CalcUsage ==
    /\ call.fn = "calculate_usage"
    /\ ret = <<>>
    /\ \E r \in calculate_usage(call.curr, call.prev) : ret' = <<r>>
    /\ UNCHANGED <<config, nvme_info, frame, call, invoked, fs, running, errors, now, pc,
                   slept, chan, tui, ctrlc, cpu, mem, nvme, video, result, report,
                   env, tele, stats, failures, hist>>

\* ---- get_test_file_path
\* A path is the sequence of its components below "/"; an Option is <<>> for
\* None and <<x>> for Some(x).
Root == <<>>

\* device.contains("nvme"), for the device names of MountDevices
ContainsNvme(device) == device \in {"/dev/nvme0n1p1", "/dev/nvme0n1p2"}

\* a search for a data partition that skips the root mount only
SkippedMountRootOnly(mp) == mp = Root

\* mount points the search for a data partition skips: /, /boot, /boot/firmware
SkippedMount(mp) == mp \in {Root, <<"boot">>, <<"boot", "firmware">>}

\* "/var/tmp/.pi-under-pressure-nvme-test"
VarTmpPath == <<"var", "tmp", ".pi-under-pressure-nvme-test">>

\* $HOME/.cache/pi-under-pressure/nvme-test
CachePath(home) == home \o <<".cache", "pi-under-pressure", "nvme-test">>

\* the first of the line numbers in hits, 0 when there is none
FirstIndex(hits) == IF hits = {} THEN 0 ELSE CHOOSE k \in hits : \A j \in hits : k <= j

\* parts.len() >= 2 && mount_point == "/" && device.contains("nvme")
IsNvmeRoot(parts) == Len(parts) >= 2 /\ parts[2] = Root /\ ContainsNvme(parts[1])

\* parts.len() >= 2 && device.contains("nvme") && the mount point is not skipped
IsNvmeData(parts) == Len(parts) >= 2 /\ ContainsNvme(parts[1]) /\ ~SkippedMount(parts[2])

get_test_file_path(custom_path, mounts, home) ==
    LET lines == mounts.lines
        root == FirstIndex({k \in 1..Len(lines) : IsNvmeRoot(lines[k])})
        data == FirstIndex({k \in 1..Len(lines) : IsNvmeData(lines[k])})
    IN IF custom_path # <<>> THEN custom_path[1]
       ELSE IF ~mounts.readable THEN VarTmpPath
       ELSE IF root # 0
            THEN IF home # <<>> THEN CachePath(home[1]) ELSE VarTmpPath
       ELSE IF data # 0
            THEN Append(lines[data][2], ".pi-under-pressure-test")
       ELSE VarTmpPath

MountDevices == {"/dev/nvme0n1p2", "/dev/mmcblk0p2"}

MountPoints == {Root, <<"boot">>, <<"boot", "firmware">>, <<"mnt", "data">>,
                <<"tmp", "scratch">>}

\* a line of /proc/mounts split at white space: device and mount point, or a
\* line with a single field
MountLines == {<<dv, mp>> : dv \in MountDevices, mp \in MountPoints} \cup {<<"none">>}

MountTables ==
    {[readable |-> FALSE, lines |-> <<>>]}
        \cup {[readable |-> TRUE, lines |-> l] :
                 l \in UNION {[1..n -> MountLines] : n \in 0..MaxMounts}}

PathInputs ==
    [fn : {"get_test_file_path"},
     custom_path : {<<>>, <<<<"custom", "path", "test">>>>, <<<<"tmp", "t">>>>},
     mounts : MountTables,
     home : {<<>>, <<<<"home", "pi">>>>, <<<<"tmp", "home">>>>}]

TestFilePath ==
    /\ call.fn = "get_test_file_path"
    /\ ret = <<>>
    /\ ret' = <<get_test_file_path(call.custom_path, call.mounts, call.home)>>
    /\ UNCHANGED <<config, nvme_info, frame, call, invoked, fs, running, errors, now, pc,
                   slept, chan, tui, ctrlc, cpu, mem, nvme, video, result, report,
                   env, tele, stats, failures, hist>>

\* ---- detect_encoder (video.rs)
\* encoder names, as the pieces a substring search can tell apart
Hevc == <<"hevc_v4l2m2m">>

H264 == <<"h264_v4l2m2m">>

X264 == <<"libx264">>

\* another encoder of ffmpeg, whose name contains "libx264"
X264Rgb == <<"libx264", "rgb">>

\* Option<&'static str>::None
NoEncoder == <<>>

\* stdout.contains(encoder), for an output that lists the names in `listing`
\* (the empty output when ffmpeg could not be run)
check_encoder_available(listing, encoder) ==
    \E name \in listing : \E i \in 1..Len(name) :
        /\ i + Len(encoder) - 1 <= Len(name)
        /\ SubSeq(name, i, i + Len(encoder) - 1) = encoder

\* the one-frame trial encode exits with success
test_encoder_works(works, encoder) == encoder \in works

\* the software encoder tried before the hardware ones
FindSoftwareFirst(listing, works) ==
    LET ok(e) == check_encoder_available(listing, e) /\ test_encoder_works(works, e)
    IN  IF ok(X264) THEN X264
        ELSE IF ok(Hevc) THEN Hevc
        ELSE IF ok(H264) THEN H264
        ELSE NoEncoder

\* for encoder in ["hevc_v4l2m2m", "h264_v4l2m2m"] { .. }; then libx264; else None
find_working_encoder(listing, works) ==
    LET ok(e) == check_encoder_available(listing, e) /\ test_encoder_works(works, e)
    IN  IF ok(Hevc) THEN Hevc
        ELSE IF ok(H264) THEN H264
        ELSE IF ok(X264) THEN X264
        ELSE NoEncoder

\* if !is_ffmpeg_available() { return None }; find_working_encoder()
detect_encoder(ffmpeg, listing, works) ==
    IF ~ffmpeg THEN NoEncoder ELSE find_working_encoder(listing, works)

\* every outcome of `ffmpeg -version`, every listing, and every set of
\* encoders whose trial passes; an encoder that encodes is one ffmpeg lists
EncoderInputs ==
    {c \in [fn : {"detect_encoder"}, ffmpeg : BOOLEAN,
            listing : SUBSET {Hevc, H264, X264, X264Rgb},
            works : SUBSET {Hevc, H264, X264}] : c.works \subseteq c.listing}

DetectEncoder ==
    /\ call.fn = "detect_encoder"
    /\ ret = <<>>
    /\ ret' = <<detect_encoder(call.ffmpeg, call.listing, call.works)>>
    /\ UNCHANGED <<config, nvme_info, frame, call, invoked, fs, running, errors, now, pc,
                   slept, chan, tui, ctrlc, cpu, mem, nvme, video, result, report,
                   env, tele, stats, failures, hist>>

\* ---- run_fill_verify_stress (memory.rs)
\* the longest buffer handed to the memory oracles, in bytes
MaxBuf == 3

\* the length of the walking-ones region (4096 in the program), kept below
\* the longest buffer
WALK_SIZE == MaxBuf - 1

\* let patterns: [u8; 4] = [0x00, 0xFF, 0xAA, 0x55]
patterns == <<0, 255, 170, 85>>

\* the twelve write/verify passes: the four fills, then 1u8 << bit for bit in 0..8
FillPasses == 1..(Len(patterns) + 8)

PassPattern(p) == IF p <= Len(patterns) THEN patterns[p] ELSE 2 ^ (p - Len(patterns) - 1)

\* the bytes a pass writes and reads back: the whole buffer, or
\* buffer[..test_size] with test_size = 4096.min(buffer.len())
PassRegion(p, len) == IF p <= Len(patterns) THEN 1..len ELSE 1..Min(WALK_SIZE, len)

\* fault-free memory
NoFault == [pass |-> 0, index |-> 0, value |-> 0]

\* the buffer after the writes of pass p
FillPass(buf, p) ==
    [k \in 1..Len(buf) |-> IF k \in PassRegion(p, Len(buf)) THEN PassPattern(p) ELSE buf[k]]

\* what the byte at k reads as in pass p: the stored byte, or the value a
\* faulty cell gives
ReadBack(buf, p, fault, k) ==
    IF fault.pass = p /\ fault.index = k THEN fault.value ELSE buf[k]

\* a verification that looks at the first byte of the region only
VerifyFirstByte(buf, p, fault) ==
    \A k \in PassRegion(p, Len(buf)) \cap {1} : ReadBack(buf, p, fault, k) = PassPattern(p)

\* for &byte in ..iter() { if byte != pattern { return false } }
VerifyPass(buf, p, fault) ==
    \A k \in PassRegion(p, Len(buf)) : ReadBack(buf, p, fault, k) = PassPattern(p)

RECURSIVE FillVerifyFrom(_, _, _, _)
\* passes p.. of run_fill_verify_stress: the result, and the buffer as it read
\* after the writes of each pass that ran
FillVerifyFrom(p, buf, fault, seen) ==
    IF p \notin FillPasses THEN [ok |-> TRUE, seen |-> seen]
    ELSE LET written == FillPass(buf, p)
             read == [k \in 1..Len(buf) |-> ReadBack(written, p, fault, k)]
         IN  IF VerifyPass(written, p, fault)
             THEN FillVerifyFrom(p + 1, written, fault, Append(seen, read))
             ELSE [ok |-> FALSE, seen |-> Append(seen, read)]

run_fill_verify_stress(buf, fault) == FillVerifyFrom(1, buf, fault, <<>>)

\* byte values a faulty cell may give: the patterns, walking bits, and others
FaultBytes == {0, 1, 85, 128, 170, 254, 255}

\* every buffer length up to MaxBuf, two earlier contents, no fault or one
\* faulty read in any pass at any index
FillInputs ==
    {[fn |-> "run_fill_verify_stress", buffer |-> [k \in 1..n |-> b], fault |-> f] :
        n \in 0..MaxBuf, b \in {0, 19},
        f \in {NoFault} \cup [pass : FillPasses, index : 1..MaxBuf, value : FaultBytes]}

FillVerify ==
    /\ call.fn = "run_fill_verify_stress"
    /\ ret = <<>>
    /\ ret' = <<run_fill_verify_stress(call.buffer, call.fault)>>
    /\ UNCHANGED <<config, nvme_info, frame, call, invoked, fs, running, errors, now, pc,
                   slept, chan, tui, ctrlc, cpu, mem, nvme, video, result, report,
                   env, tele, stats, failures, hist>>

\* ---- run_stream_stress (memory.rs)
\* the longest buffer given to run_stream_stress, in bytes
MaxStreamBytes == 47

\* lane values are kept modulo LaneMod (2^64 in the program): wrapping_mul and
\* wrapping_add wrap at it
LaneMod == 16

LaneValues == {0, 1, 5}

\* let scalar: u64 = 3
scalar == 3

wrapping_mul(a, b) == (a * b) % LaneMod

wrapping_add(a, b) == (a + b) % LaneMod

\* a half that rounds up
HalfUp(len) == (len + 1) \div 2

\* len / 2: the end of the copy and add loops and the offset of the upper half
Half(len) == len \div 2

\* an index into buffer_u64 that passes the bounds check
InLanes(s, i) == 0 <= i /\ i < Len(s.lanes)

\* buffer_u64[i], when InLanes
Lane(s, i) == s.lanes[i + 1]

\* buffer_u64[i] = v: a panic when i is out of bounds
SetLane(s, i, v) ==
    IF InLanes(s, i) THEN [s EXCEPT !.lanes[i + 1] = v] ELSE [s EXCEPT !.trap = TRUE]

RECURSIVE StreamCopy(_, _)
\* for i in 0..len / 2 { buffer_u64[i + len / 2] = buffer_u64[i] }, from i on
StreamCopy(s, i) ==
    LET len == Len(s.lanes)
    IN  IF s.trap \/ i >= Half(len) THEN s
        ELSE IF ~InLanes(s, i) THEN [s EXCEPT !.trap = TRUE]
        ELSE StreamCopy(SetLane(s, i + Half(len), Lane(s, i)), i + 1)

\* for elem in buffer_u64.iter_mut() { *elem = elem.wrapping_mul(scalar) }
StreamScale(s) ==
    [s EXCEPT !.lanes = [k \in DOMAIN @ |-> wrapping_mul(@[k], scalar)]]

RECURSIVE StreamAdd(_, _)
\* for i in 0..len / 2 { buffer_u64[i] += buffer_u64[i + len / 2] }, from i on
StreamAdd(s, i) ==
    LET len == Len(s.lanes)
    IN  IF s.trap \/ i >= Half(len) THEN s
        ELSE IF ~InLanes(s, i) \/ ~InLanes(s, i + Half(len)) THEN [s EXCEPT !.trap = TRUE]
        ELSE StreamAdd(SetLane(s, i, wrapping_add(Lane(s, i), Lane(s, i + Half(len)))),
                       i + 1)

RECURSIVE StreamTriad(_, _)
\* for i in 0..len / 3 { buffer_u64[i] = buffer_u64[i + len / 3]
\*                           + scalar * buffer_u64[i + 2 * len / 3] }, from i on
StreamTriad(s, i) ==
    LET len == Len(s.lanes)
        b == i + len \div 3
        c == i + (2 * len) \div 3
    IN  IF s.trap \/ i >= len \div 3 THEN s
        ELSE IF ~InLanes(s, b) \/ ~InLanes(s, c) THEN [s EXCEPT !.trap = TRUE]
        ELSE StreamTriad(SetLane(s, i, wrapping_add(Lane(s, b),
                                                    wrapping_mul(scalar, Lane(s, c)))),
                         i + 1)

\* run_stream_stress on a buffer of `bytes` bytes whose first bytes / 8 lanes
\* hold `lanes`: trap (an index out of bounds panicked), the lanes left
\* behind, and the value returned
run_stream_stress(bytes, lanes) ==
    LET s == StreamTriad(StreamAdd(StreamScale(StreamCopy(
                 [lanes |-> lanes, trap |-> FALSE], 0)), 0), 0)
    IN  [trap |-> s.trap,
         lanes |-> s.lanes,
         ok |-> ~s.trap /\ ((\E k \in DOMAIN s.lanes : s.lanes[k] # 0)
                               \/ (\A k \in DOMAIN s.lanes : s.lanes[k] = 0))]

\* every buffer of up to MaxStreamBytes bytes, every content of its lanes
StreamInputs ==
    {[fn |-> "run_stream_stress", bytes |-> n, lanes |-> l] :
        n \in 0..MaxStreamBytes,
        l \in UNION {[1..m -> LaneValues] : m \in 0..(MaxStreamBytes \div 8)}}

StreamCalls == {c \in StreamInputs : Len(c.lanes) = c.bytes \div 8}

Stream ==
    /\ call.fn = "run_stream_stress"
    /\ ret = <<>>
    /\ ret' = <<run_stream_stress(call.bytes, call.lanes)>>
    /\ UNCHANGED <<config, nvme_info, frame, call, invoked, fs, running, errors, now, pc,
                   slept, chan, tui, ctrlc, cpu, mem, nvme, video, result, report,
                   env, tele, stats, failures, hist>>

StreamInit ==
    /\ call \in StreamCalls
    /\ ret = <<>>
    /\ frame = NoFrame
    /\ Idle

StreamNext == Stream

StreamSpec == StreamInit /\ [][StreamNext]_vars

\* ---- run_random_access_stress (memory.rs)
\* the number of random writes, and of random reads (ITERATIONS = 100_000 in
\* the program)
MaxDraws == 2

\* values rng.gen::<u8>() may give
RandBytes == {0, 255}

RECURSIVE RandomWrites(_, _, _)
\* for _ in 0..ITERATIONS { buffer[idx] = value }, for the draws ws[i..]
RandomWrites(buf, ws, i) ==
    IF i > Len(ws) THEN buf
    ELSE RandomWrites([buf EXCEPT ![ws[i].idx] = ws[i].value], ws, i + 1)

RECURSIVE Checksum(_, _, _)
\* checksum = checksum.wrapping_add(buffer[idx] as u64), for the draws rs[i..]
\* (at most 100,000 x 255: the u64 never wraps)
Checksum(buf, rs, i) ==
    IF i > Len(rs) THEN 0 ELSE buf[rs[i]] + Checksum(buf, rs, i + 1)

\* the function for given outcomes of the draws:
\* checksum > 0 || buffer.iter().all(|&b| b == 0)
run_random_access_stress(buf, ws, rs) ==
    LET after == RandomWrites(buf, ws, 1)
        checksum == Checksum(after, rs, 1)
    IN  [ok |-> checksum > 0 \/ \A k \in 1..Len(after) : after[k] = 0,
         buffer |-> after, checksum |-> checksum]

\* the buffers the oracle is handed: never empty (alloc_size >= MIN_CHUNK_SIZE),
\* zeroed or holding what an earlier oracle left
RandomInputs ==
    {[fn |-> "run_random_access_stress", buffer |-> b] :
        b \in UNION {[1..n -> {0, 7}] : n \in 1..MaxBuf}}

\* one invocation on fault-free memory, for any outcome of the draws
RandomAccess ==
    /\ call.fn = "run_random_access_stress"
    /\ ret = <<>>
    /\ \E ws \in [1..MaxDraws -> [idx : 1..Len(call.buffer), value : RandBytes]],
          rs \in [1..MaxDraws -> 1..Len(call.buffer)] :
          ret' = <<run_random_access_stress(call.buffer, ws, rs)>>
    /\ UNCHANGED <<config, nvme_info, frame, call, invoked, fs, running, errors, now, pc,
                   slept, chan, tui, ctrlc, cpu, mem, nvme, video, result, report,
                   env, tele, stats, failures, hist>>

CallInputs ==
    DecodeInputs \cup AllocInputs \cup UsageInputs \cup PathInputs \cup EncoderInputs
        \cup FillInputs \cup RandomInputs

CallInit ==
    /\ call \in CallInputs
    /\ ret = <<>>
    /\ frame = NoFrame
    /\ Idle

CallNext ==
    \/ Decode
    \/ Allocate
    \/ CalcUsage
    \/ TestFilePath
    \/ DetectEncoder
    \/ FillVerify
    \/ RandomAccess

CallSpec == CallInit /\ [][CallNext]_vars

\* ------------------------------------------- run_prime_stress, pass by pass
\* const LIMIT: usize = 100_000
LIMIT == 100000

\* "Known value: there are 9592 primes below 100000"
KNOWN_PRIME_COUNT == 9592

\* the inner loop stopping one short: while j < LIMIT
ClearsBelow(i, limit, n) == n >= i * i /\ n < limit /\ (n - i * i) % i = 0

\* the inner loop of pass i writes false to is_prime[n]:
\* j = i * i; while j <= LIMIT { is_prime[j] = false; j += i }
Clears(i, limit, n) == n >= i * i /\ n <= limit /\ (n - i * i) % i = 0

\* the locals of run_prime_stress: i, is_prime (held as the set of the i whose
\* inner loop ran), and prime_count once it is counted (None before)
SieveFrame ==
    [fn |-> "run_prime_stress", i |-> 2, sieved |-> {}, prime_count |-> None]

\* is_prime[n]: false for 0, 1 and for what the inner loops cleared
is_prime(sieved, n) == n >= 2 /\ \A p \in sieved : ~Clears(p, LIMIT, n)

\* one pass of `while i * i <= LIMIT`
SieveStep ==
    /\ frame.fn = "run_prime_stress"
    /\ frame.prime_count = None
    /\ frame.i * frame.i <= LIMIT
    /\ frame' = [frame EXCEPT
                   !.i = @ + 1,
                   !.sieved = IF is_prime(@, frame.i) THEN @ \cup {frame.i} ELSE @]
    /\ UNCHANGED <<config, nvme_info, call, ret, invoked, fs, running, errors, now,
                   pc, slept, chan, tui, ctrlc, cpu, mem, nvme, video, result,
                   report, env, tele, stats, failures, hist>>

\* prime_count = is_prime.iter().filter(|&&p| p).count(); prime_count == 9592
SieveCount ==
    /\ frame.fn = "run_prime_stress"
    /\ frame.prime_count = None
    /\ frame.i * frame.i > LIMIT
    /\ LET n == Cardinality({k \in 0..LIMIT : is_prime(frame.sieved, k)})
       IN  /\ frame' = [frame EXCEPT !.prime_count = n]
           /\ ret' = <<n = KNOWN_PRIME_COUNT>>
    /\ UNCHANGED <<config, nvme_info, call, invoked, fs, running, errors, now,
                   pc, slept, chan, tui, ctrlc, cpu, mem, nvme, video, result,
                   report, env, tele, stats, failures, hist>>

\* one invocation of the oracle, on its own
SieveInit ==
    /\ call = [fn |-> "run_prime_stress"]
    /\ ret = <<>>
    /\ frame = SieveFrame
    /\ Idle

SieveNext ==
    \/ SieveStep
    \/ SieveCount

SieveSpec == SieveInit /\ [][SieveNext]_vars

\* ------------------------------------------- parse_config_from_str (config.rs)
\* the longest config.txt, in lines
MaxLines == 3

\* Option<_>: <<>> is None, <<v>> is Some(v)
Some(v) == <<v>>

\* the section names ConfigFilter::from_line recognizes
FilterNames ==
    {"all", "none", "pi5", "pi500", "cm5", "pi4", "pi400", "cm4", "cm4s", "pi3",
     "pi3+", "cm3", "cm3+", "pi2", "pi1", "cm1", "pi0", "pi0w", "pi02"}

\* str::to_lowercase, on the section names and the pieces of log lines that occur
to_lowercase(name) ==
    CASE name = "PI4" -> "pi4"
      [] name = "All" -> "all"
      [] name = "I/O" -> "i/o"
      [] name = "Buffer" -> "buffer"
      [] name = "AER" -> "aer"
      [] name = "DMAR" -> "dmar"
      [] name = "MCE" -> "mce"
      [] name = "Hardware" -> "hardware"
      [] name = "Error" -> "error"
      [] name = "Kernel" -> "kernel"
      [] name = "Oops" -> "oops"
      [] name = "Internal" -> "internal"
      [] name = "USB device connected" -> "usb device connected"
      [] OTHER -> name

\* an unknown section name closes the section, as [none] does
FromLineUnknownNone(name) ==
    IF to_lowercase(name) \in FilterNames THEN Some(to_lowercase(name)) ELSE Some("none")

\* ConfigFilter::from_line, for the text between '[' and ']': Some(filter), or
\* None for a name that is not a filter ([tryboot], [EDID=..])
from_line(name) ==
    IF to_lowercase(name) \in FilterNames THEN Some(to_lowercase(name)) ELSE <<>>

\* PiModel
PiModels ==
    {"Pi5", "Pi500", "Cm5", "Pi4", "Pi400", "Cm4", "Cm4S", "Pi3", "Pi3Plus", "Cm3",
     "Cm3Plus", "Pi2", "Pi1", "Cm1", "Pi0", "Pi0W", "Pi02", "Unknown"}

\* a match without families: every filter matches the model it is named after
MatchesOwn(filter, model) ==
    \/ filter = "all"
    \/ <<filter, model>> \in
          {<<"pi5", "Pi5">>, <<"pi500", "Pi500">>, <<"cm5", "Cm5">>, <<"pi4", "Pi4">>,
           <<"pi400", "Pi400">>, <<"cm4", "Cm4">>, <<"cm4s", "Cm4S">>, <<"pi3", "Pi3">>,
           <<"pi3+", "Pi3Plus">>, <<"cm3", "Cm3">>, <<"cm3+", "Cm3Plus">>,
           <<"pi2", "Pi2">>, <<"pi1", "Pi1">>, <<"cm1", "Cm1">>, <<"pi0", "Pi0">>,
           <<"pi0w", "Pi0W">>, <<"pi02", "Pi02">>}

\* ConfigFilter::matches
matches(filter, model) ==
    CASE filter = "all" -> TRUE
      [] filter = "none" -> FALSE
      [] filter = "pi5" -> model \in {"Pi5", "Pi500", "Cm5"}
      [] filter = "pi500" -> model = "Pi500"
      [] filter = "cm5" -> model = "Cm5"
      [] filter = "pi4" -> model \in {"Pi4", "Pi400", "Cm4", "Cm4S"}
      [] filter = "pi400" -> model = "Pi400"
      [] filter = "cm4" -> model = "Cm4"
      [] filter = "cm4s" -> model = "Cm4S"
      [] filter = "pi3" -> model \in {"Pi3", "Cm3"}
      [] filter = "pi3+" -> model \in {"Pi3Plus", "Cm3Plus"}
      [] filter = "cm3" -> model = "Cm3"
      [] filter = "cm3+" -> model = "Cm3Plus"
      [] filter = "pi2" -> model = "Pi2"
      [] filter = "pi1" -> model \in {"Pi1", "Cm1"}
      [] filter = "cm1" -> model = "Cm1"
      [] filter = "pi0" -> model \in {"Pi0", "Pi0W", "Pi02"}
      [] filter = "pi0w" -> model = "Pi0W"
      [] OTHER -> model = "Pi02"

\* should_apply_filter: a direct match, or the parent filter of the model
should_apply_filter(filter, model) ==
    \/ matches(filter, model)
    \/ CASE model \in {"Pi500", "Cm5"} -> filter = "pi5"
         [] model \in {"Pi400", "Cm4", "Cm4S"} -> filter = "pi4"
         [] model = "Cm3" -> filter = "pi3"
         [] model = "Cm3Plus" -> filter = "pi3+"
         [] model = "Cm1" -> filter = "pi1"
         [] model \in {"Pi0W", "Pi02"} -> filter = "pi0"
         [] OTHER -> FALSE

\* the keys parsed as u32, and as i32
U32Keys == {"arm_freq", "gpu_freq", "core_freq", "core_freq_fixed", "force_turbo"}

I32Keys == {"over_voltage", "over_voltage_delta"}

\* a key the match has no arm for
OtherKeys == {"gpu_mem"}

\* value.parse::<u32>(), on the values that occur
parse_u32(value) ==
    CASE value = "2800" -> Some(2800)
      [] value = "3000" -> Some(3000)
      [] OTHER -> <<>>

\* value.parse::<i32>(), on the values that occur
parse_i32(value) ==
    CASE value = "2800" -> Some(2800)
      [] value = "3000" -> Some(3000)
      [] value = "-2" -> Some(0 - 2)
      [] OTHER -> <<>>

ParseValue(key, value) == IF key \in U32Keys THEN parse_u32(value) ELSE parse_i32(value)

\* OcConfig::default(): the seven typed fields (under their keys), the two
\* PCIe fields and raw_values
DefaultOcConfig ==
    [typed |-> [k \in U32Keys \cup I32Keys |-> <<>>],
     pcie_enabled |-> FALSE,
     pcie_gen |-> <<>>,
     raw_values |-> [k \in U32Keys \cup I32Keys \cup OtherKeys |-> <<>>]]

\* the current filter lets the line through: None (top of the file) and [all]
\* always, [none] never, a model filter by should_apply_filter
ShouldApply(current_filter, model) ==
    \/ current_filter = <<>>
    \/ current_filter # <<>> /\ current_filter[1] = "all"
    \/ /\ current_filter # <<>>
       /\ current_filter[1] \notin {"all", "none"}
       /\ should_apply_filter(current_filter[1], model)

\* a key=value line that is let through: raw_values.insert, then the typed
\* field if the key has one and the value parses
ApplyKeyValue(cfg, key, value) ==
    [cfg EXCEPT !.raw_values[key] = Some(value),
                !.typed = IF key \in DOMAIN @ /\ ParseValue(key, value) # <<>>
                          THEN [@ EXCEPT ![key] = ParseValue(key, value)]
                          ELSE @]

\* a dtparam= line that is let through
ApplyDtparam(cfg, param) ==
    CASE param \in {"pciex1", "pciex1=on"} -> [cfg EXCEPT !.pcie_enabled = TRUE]
      [] param = "pciex1_gen=3" -> [cfg EXCEPT !.pcie_gen = Some(3)]
      [] OTHER -> cfg

RECURSIVE ParseFrom(_, _, _, _, _)
\* the loop over content.lines(), from line i with the config and the
\* filter state so far
ParseFrom(lines, i, model, cfg, current_filter) ==
    IF i > Len(lines) THEN cfg
    ELSE LET line == lines[i]
         IN  CASE line.kind = "comment" ->
                    ParseFrom(lines, i + 1, model, cfg, current_filter)
               [] line.kind = "header" ->
                    ParseFrom(lines, i + 1, model, cfg,
                              IF from_line(line.name) # <<>> THEN from_line(line.name)
                              ELSE current_filter)
               [] ~ShouldApply(current_filter, model) ->
                    ParseFrom(lines, i + 1, model, cfg, current_filter)
               [] line.kind = "dtparam" ->
                    ParseFrom(lines, i + 1, model, ApplyDtparam(cfg, line.param),
                              current_filter)
               [] OTHER ->
                    ParseFrom(lines, i + 1, model,
                              ApplyKeyValue(cfg, line.key, line.value), current_filter)

parse_config_from_str(lines, model) == ParseFrom(lines, 1, model, DefaultOcConfig, <<>>)

\* the lines of a config.txt: blank or comment, section headers (known, in
\* capitals, unknown), key=value with values that parse and that do not,
\* dtparam
ConfigLines ==
    {[kind |-> "comment"]}
        \cup [kind : {"header"}, name : {"all", "none", "pi5", "pi500", "PI4", "tryboot"}]
        \cup [kind : {"kv"}, key : {"arm_freq"}, value : {"2800", "3000", "fast"}]
        \cup [kind : {"kv"}, key : {"over_voltage"}, value : {"-2"}]
        \cup [kind : {"dtparam"}, param : {"pciex1", "pciex1_gen=3"}]

\* every config.txt of up to MaxLines lines, for one model of each family
\* position: a family head, two members, another family, a non-Pi platform
ParseInputs ==
    {[fn |-> "parse_config_from_str", lines |-> l, model |-> m] :
        l \in UNION {[1..n -> ConfigLines] : n \in 0..MaxLines},
        m \in {"Pi5", "Pi500", "Cm5", "Pi4", "Unknown"}}

ParseConfig ==
    /\ call.fn = "parse_config_from_str"
    /\ ret = <<>>
    /\ ret' = <<parse_config_from_str(call.lines, call.model)>>
    /\ UNCHANGED <<config, nvme_info, frame, call, invoked, fs, running, errors, now, pc,
                   slept, chan, tui, ctrlc, cpu, mem, nvme, video, result, report,
                   env, tele, stats, failures, hist>>

ParseInit ==
    /\ call \in ParseInputs
    /\ ret = <<>>
    /\ frame = NoFrame
    /\ Idle

ParseNext == ParseConfig

ParseSpec == ParseInit /\ [][ParseNext]_vars

\* should_apply_filter on its own, for every filter and every model
FilterInputs ==
    [fn : {"should_apply_filter"}, filter : FilterNames, model : PiModels]

ApplyFilter ==
    /\ call.fn = "should_apply_filter"
    /\ ret = <<>>
    /\ ret' = <<should_apply_filter(call.filter, call.model)>>
    /\ UNCHANGED <<config, nvme_info, frame, call, invoked, fs, running, errors, now, pc,
                   slept, chan, tui, ctrlc, cpu, mem, nvme, video, result, report,
                   env, tele, stats, failures, hist>>

FilterInit ==
    /\ call \in FilterInputs
    /\ ret = <<>>
    /\ frame = NoFrame
    /\ Idle

FilterNext == ApplyFilter

FilterSpec == FilterInit /\ [][FilterNext]_vars

\* ------------------------------------- the kernel log and main's final report
\* the longest dmesg output, in lines
MaxLogLines == 2

\* A log line is a sequence of pieces, cut so that every pattern the checks
\* search for is a run of whole pieces or does not occur.
IoLine == <<"blk_update_request", ": ", "I/O", " ", "error", ", dev ", "nvme", "0n1">>

OopsLine == <<"Internal", " ", "error", ": ", "Oops", ": 96000004 [#1] SMP">>

MceLine == <<"mce", ": [", "Hardware", " ", "Error", "]: Machine check events logged">>

NvmeStartLine == <<"nvme", "0n1", ": starting up">>

UsbLine == <<"USB device connected">>

\* ERROR_PATTERNS, as written: the ".*" of five entries is searched literally
ERROR_PATTERNS ==
    {<<"I/O", " ", "error">>, <<"blk_update_request">>,
     <<"Buffer", " ", "I/O", " ", "error">>, <<"nvme", ".*", "error">>,
     <<"pcieport", ".*", "AER">>, <<"mmc", ".*", "error">>, <<"sd", ".*", "error">>,
     <<"ata", ".*", "error">>, <<"DMAR">>, <<"MCE">>, <<"Hardware", " ", "Error">>,
     <<"Kernel", " ", "panic">>, <<"Oops">>}

\* str::to_lowercase of a line or a pattern
Lower(text) == [i \in DOMAIN text |-> to_lowercase(text[i])]

\* str::contains
contains(text, pattern) ==
    \E i \in 1..Len(text) :
        /\ i + Len(pattern) - 1 <= Len(text)
        /\ SubSeq(text, i, i + Len(pattern) - 1) = pattern

\* is_relevant_error: the broad check
is_relevant_error(line) ==
    \E pattern \in ERROR_PATTERNS : contains(Lower(line), Lower(pattern))

\* is_io_error: the strict check
is_io_error(line) ==
    LET line_lower == Lower(line)
        has(p) == contains(line_lower, p)
    IN  \/ has(<<"i/o", " ", "error">>)
        \/ has(<<"blk_update_request">>)
        \/ has(<<"buffer", " ", "i/o", " ", "error">>)
        \/ (has(<<"mmc">>) \/ has(<<"ata">>) \/ has(<<"sd">>)) /\ has(<<"error">>)
        \/ has(<<"nvme">>) /\ (has(<<"error">>) \/ has(<<"timeout">>) \/ has(<<"i/o">>))
        \/ (has(<<"aer">>) \/ has(<<"pcieport">>)) /\ has(<<"error">>)

\* the texts of the lines of `log` at one of `levels`: dmesg --level=...
AtLevel(log, levels) ==
    LET keep(l) == l.level \in levels
        kept == SelectSeq(log, keep)
    IN  [i \in DOMAIN kept |-> kept[i].text]

RECURSIVE PushNew(_, _)
\* push every relevant line of `texts` that `found` does not hold yet
PushNew(found, texts) ==
    IF texts = <<>> THEN found
    ELSE PushNew(IF /\ is_relevant_error(Head(texts))
                    /\ \A i \in DOMAIN found : found[i] # Head(texts)
                 THEN Append(found, Head(texts))
                 ELSE found,
                 Tail(texts))

\* check_dmesg_errors: the relevant lines of dmesg --level=err,warn, then the
\* relevant lines of journalctl -k -p err that are not among them; a command
\* that fails contributes nothing
check_dmesg_errors(log) ==
    LET relevant(t) == is_relevant_error(t)
        dmesg == IF log.dmesg_ok
                 THEN SelectSeq(AtLevel(log.dmesg, {"err", "warn"}), relevant)
                 ELSE <<>>
    IN  IF log.journal_ok THEN PushNew(dmesg, log.journal) ELSE dmesg

\* check_io_errors: the lines of dmesg --level=err that the strict check takes
check_io_errors(log) ==
    LET strict(t) == is_io_error(t)
    IN  IF log.dmesg_ok THEN SelectSeq(AtLevel(log.dmesg, {"err"}), strict) ELSE <<>>

\* main, after the TUI task: collect the log lines and generate the report
FinalReport(r, log) == generate_report(r, check_dmesg_errors(log))

LogTexts == {IoLine, OopsLine, MceLine, NvmeStartLine, UsbLine}

\* kernel logs: up to MaxLogLines dmesg lines at level err or warn, up to one
\* journal line, either command able to fail
KernelLogs ==
    [dmesg_ok : BOOLEAN,
     dmesg : UNION {[1..n -> [level : {"err", "warn"}, text : LogTexts]] :
                        n \in 0..MaxLogLines},
     journal_ok : BOOLEAN,
     journal : UNION {[1..n -> LogTexts] : n \in 0..1}]

\* a TestResult with nothing counted, but for the storage errors given
CleanResult(nvme_errors) ==
    [cpu_errors |-> 0, memory_errors |-> 0, nvme_errors |-> nvme_errors,
     video_errors |-> 0, throttle_events |-> 0, under_voltage_events |-> 0,
     max_cpu_temp |-> 50, avg_cpu_temp |-> [num |-> 50, den |-> 1],
     max_nvme_temp |-> None, completed |-> TRUE, duration_secs |-> 1]

LogInputs ==
    {[fn |-> "final_report", result |-> CleanResult(n), log |-> l] :
        n \in {0, 1}, l \in KernelLogs}

MainReport ==
    /\ call.fn = "final_report"
    /\ ret = <<>>
    /\ ret' = <<FinalReport(call.result, call.log)>>
    /\ UNCHANGED <<config, nvme_info, frame, call, invoked, fs, running, errors, now, pc,
                   slept, chan, tui, ctrlc, cpu, mem, nvme, video, result, report,
                   env, tele, stats, failures, hist>>

LogInit ==
    /\ call \in LogInputs
    /\ ret = <<>>
    /\ frame = NoFrame
    /\ Idle

LogNext == MainReport

LogSpec == LogInit /\ [][LogNext]_vars

\* ------------------------------------------- generate_report on its own
\* the TestResults handed to generate_report
ResultInputs ==
    [cpu_errors : 0..MaxErrors,
     memory_errors : 0..MaxErrors,
     nvme_errors : 0..MaxErrors,
     video_errors : 0..MaxErrors,
     throttle_events : 0..MaxErrors,
     under_voltage_events : 0..MaxErrors,
     max_cpu_temp : {50},
     avg_cpu_temp : {[num |-> 50, den |-> 1]},
     max_nvme_temp : {None},
     completed : BOOLEAN,
     duration_secs : {1}]

\* main has the TestResult in hand and is about to collect the log lines
ReportInit ==
    /\ result \in {<<r>> : r \in ResultInputs}
    /\ pc = "report"
    /\ config = [cpu |-> TRUE, memory |-> TRUE, nvme |-> TRUE, video |-> TRUE,
                 threads |-> 1, duration |-> 1]
    /\ nvme_info = TRUE
    /\ running = FALSE
    /\ errors = [c \in Categories |->
                   CASE c = "cpu" -> result[1].cpu_errors
                     [] c = "memory" -> result[1].memory_errors
                     [] c = "nvme" -> result[1].nvme_errors
                     [] OTHER -> result[1].video_errors]
    /\ failures = errors
    /\ invoked = NoneInvoked
    /\ now = 1
    /\ slept = FALSE
    /\ chan = <<>>
    /\ tui = "none"
    /\ ctrlc = "armed"
    /\ cpu = [i \in Threads |-> IF i = 1 THEN Exited ELSE [pc |-> "idle", iteration |-> 0]]
    /\ mem = [i \in Threads |-> IF i = 1 THEN Exited ELSE [pc |-> "idle", iteration |-> 0]]
    /\ nvme = Exited
    /\ video = Exited
    /\ report = <<>>
    /\ env = QuietEnv
    /\ tele = [Tele0 EXCEPT !.throttle_events = result[1].throttle_events,
                            !.under_voltage_events = result[1].under_voltage_events,
                            !.max_cpu_temp = 50,
                            !.temp_samples = <<50>>]
    /\ stats = <<>>
    /\ fs = [file |-> "absent", cleanup |-> TRUE]
    /\ frame = NoFrame
    /\ Uncalled
    /\ hist = [shutdown |-> "due", create_failed |-> FALSE, nvme_ran |-> TRUE,
               open_failed |-> FALSE,
               samples |-> <<[raw |-> 0, throttle |-> result[1].throttle_events > 0,
                              under_voltage |-> result[1].under_voltage_events > 0]>>]

ReportNext == GenerateReport

ReportSpec == ReportInit /\ [][ReportNext]_vars

\* =====================================================================
\* Properties
\* =====================================================================
Done == Len(result) = 1

Reported == Len(report) = 1

\* C1: the telemetry producer never blocks: whenever the sampling tick is at
\* its send, the send completes at once (the sample is queued, or dropped when
\* the channel is full or has no consumer), so the loop goes on to its sleep
\* and its next deadline/cancellation check.
C1_ProducerNeverBlocks == pc = "send" => SendReady(chan, RxDropped)

\* C2: under fair scheduling, once the configured duration has elapsed or
\* cancellation has been requested, run_stress_test eventually returns its
\* TestResult, whatever is enabled and whether or not the channel is drained.
C2_ShutdownReachesDone == (now >= config.duration \/ ~running) ~> Done

\* C3: the shutdown signal is one-way: once `running` has been cleared, no step
\* of any actor sets it again.
C3_ShutdownOneWay == [][~running => ~running']_vars

\* C3 witness: Ctrl+C cleared the flag before the deadline, the orchestrator
\* then stored to it again after its loop, and it is still cleared.
C3_Witness ==
    /\ ~running
    /\ ctrlc = "fired"
    /\ hist.shutdown = "early"
    /\ pc = "result"

\* C4: every step leaves each of the four error counters unchanged or
\* increases it by exactly 1; nothing resets or decreases a counter.
C4_CountersMonotonic ==
    [][\A c \in Categories : errors'[c] = errors[c] \/ errors'[c] = errors[c] + 1]_vars

\* C4 witness: a counter that has been incremented more than once.
C4_Witness == \E c \in Categories : errors[c] >= 2

\* C5: TestResult.completed is true only if the elapsed time had reached the
\* configured duration at the moment the shutdown flag was first cleared.
C5_CompletedOnlyIfDue == Done /\ result[1].completed => hist.shutdown = "due"

\* C6: two TestResults that differ only in `completed` give FinalReports that
\* differ.
C6_ReportShowsCompleted ==
    Reported =>
        generate_report([result[1] EXCEPT !.completed = ~@], report[1].io) # report[1].out

\* C7 as stated: each category flag of the report is true iff that category's
\* error counter is zero, whatever the list of I/O-error lines.
C7_FlagIffCounterZero ==
    Reported =>
        LET r == result[1]
            f == report[1].out
        IN /\ f.cpu_stress_passed <=> r.cpu_errors = 0
           /\ f.memory_stress_passed <=> r.memory_errors = 0
           /\ f.nvme_stress_passed <=> r.nvme_errors = 0
           /\ f.video_stress_passed <=> r.video_errors = 0

\* C7 amended: the cpu, memory and video flags are true iff that category's
\* error counter is zero; the storage flag is true iff the storage error
\* counter is zero and the list of I/O-error lines is empty.
C7_CategoryFlags ==
    Reported =>
        LET r == result[1]
            f == report[1].out
        IN /\ f.cpu_stress_passed <=> r.cpu_errors = 0
           /\ f.memory_stress_passed <=> r.memory_errors = 0
           /\ f.nvme_stress_passed <=> (r.nvme_errors = 0 /\ Len(report[1].io) = 0)
           /\ f.video_stress_passed <=> r.video_errors = 0

\* C7 witness: a clean storage counter with logged I/O errors fails the storage
\* flag while the compute flag passes and the memory flag fails on its counter.
C7_Witness ==
    /\ Reported
    /\ result[1].nvme_errors = 0
    /\ Len(report[1].io) > 0
    /\ ~report[1].out.nvme_stress_passed
    /\ report[1].out.cpu_stress_passed
    /\ result[1].memory_errors > 0
    /\ ~report[1].out.memory_stress_passed

\* C8: the verdict passes iff the four error counters, throttle_events and
\* under_voltage_events are zero and no I/O-error line was supplied; the
\* reported io_errors is the length of the supplied list.
C8_VerdictIffAllClean ==
    Reported =>
        LET r == result[1]
            f == report[1].out
        IN /\ f.passed <=> /\ r.cpu_errors = 0
                           /\ r.memory_errors = 0
                           /\ r.nvme_errors = 0
                           /\ r.video_errors = 0
                           /\ r.throttle_events = 0
                           /\ r.under_voltage_events = 0
                           /\ Len(report[1].io) = 0
           /\ f.io_errors = Len(report[1].io)

\* C8 witness: nothing counted during the run, but logged I/O errors alone
\* fail the verdict and are reported by their number.
C8_Witness ==
    /\ Reported
    /\ result[1].cpu_errors = 0 /\ result[1].memory_errors = 0
    /\ result[1].nvme_errors = 0 /\ result[1].video_errors = 0
    /\ result[1].throttle_events = 0 /\ result[1].under_voltage_events = 0
    /\ Len(report[1].io) = MaxIoLines
    /\ ~report[1].out.passed
    /\ report[1].out.io_errors = MaxIoLines

\* C9: verification failures are counted and never fatal: a compute thread
\* returns only on shutdown, a thread whose invocation failed counts it and goes
\* on to its next iteration, and the TestResult's compute count is the total
\* number of failed invocations of all compute threads, the other categories'
\* counts being those categories' own failures.
C9_FailuresCountedNeverFatal ==
    /\ [](\A i \in Threads : cpu[i].pc = "exited" => ~running)
    /\ [](Done => /\ result[1].cpu_errors = failures["cpu"]
                  /\ result[1].memory_errors = failures["memory"]
                  /\ result[1].nvme_errors = failures["nvme"]
                  /\ result[1].video_errors = failures["video"])
    /\ [][\A i \in Threads :
            cpu[i].pc = "failed" /\ cpu'[i] # cpu[i] =>
                cpu'[i] = [pc |-> "check",
                           iteration |-> (cpu[i].iteration + 1) % CPU_ORACLES]]_vars

\* C9 witness: a finished run of several compute threads in which more than one
\* invocation failed.
C9_Witness ==
    /\ Done
    /\ NumCpuThreads(config) >= 2
    /\ result[1].cpu_errors >= 2

\* C10: when the storage runner cannot create its test file it counts exactly
\* one storage error, returns without running any cycle, leaves the other
\* categories' counters alone, and the orchestrator still returns its result.
C10_CreateFailure ==
    /\ [](hist.create_failed =>
            /\ errors["nvme"] = 1
            /\ ~hist.nvme_ran
            /\ nvme.pc = "exited"
            /\ \A c \in Categories \ {"nvme"} : errors[c] <= failures[c])
    /\ (hist.create_failed ~> Done)

\* C11: a storage cycle that cannot open the test file is counted once and
\* ends the loop: after such a cycle the runner is counting that one error or
\* has returned, it is never back at the head of its loop.
C11_OpenFailureExits == hist.open_failed => nvme.pc \in {"failed", "exited"}

\* C12: from_raw is a pure bit decode: the four "now" flags are bits 0..3, the
\* four "occurred" flags are bits 16..19, raw_value is the input,
\* has_any_current_issue holds iff one of bits 0-3 is set and
\* has_any_historical_issue iff one of bits 16-19 is set; no other bit matters.
C12_PureBitDecode ==
    call.fn = "from_raw" /\ ret # <<>> =>
        LET st == ret[1].status
            b == call.bits
        IN /\ st.under_voltage_now <=> 0 \in b
           /\ st.freq_capped_now <=> 1 \in b
           /\ st.throttled_now <=> 2 \in b
           /\ st.soft_temp_limit_now <=> 3 \in b
           /\ st.under_voltage_occurred <=> 16 \in b
           /\ st.freq_capped_occurred <=> 17 \in b
           /\ st.throttled_occurred <=> 18 \in b
           /\ st.soft_temp_limit_occurred <=> 19 \in b
           /\ st.raw_value = call.raw
           /\ ret[1].current <=> b \cap NowBits # {}
           /\ ret[1].historical <=> b \cap OccurredBits # {}

\* C12 witness: 0x50000 with stray bits 4 and 30 set decodes to under-voltage
\* and throttling occurred, nothing current.
C12_Witness ==
    /\ call.fn = "from_raw" /\ ret # <<>>
    /\ call.bits = {4, 16, 18, 30}
    /\ ret[1].status.under_voltage_occurred /\ ret[1].status.throttled_occurred
    /\ ret[1].historical /\ ~ret[1].current

\* the low four bits of the register: the "now" flags
NowNibble(raw) == raw % 16

\* C13: throttle events are counted on transitions of the register, not on its
\* level: the tick sequence 0x0, 0x4, 0x4, 0x0 counts one throttle event, and a
\* tick that reads the same raw value as the tick before counts neither a
\* throttle event nor an under-voltage event.
C13_TransitionsNotLevels ==
    /\ (Len(hist.samples) = 4
          /\ hist.samples[1].raw = 0 /\ hist.samples[2].raw = 4
          /\ hist.samples[3].raw = 4 /\ hist.samples[4].raw = 0)
        => tele.throttle_events = 1
    /\ \A k \in 2..Len(hist.samples) :
          hist.samples[k].raw = hist.samples[k - 1].raw =>
              ~hist.samples[k].throttle /\ ~hist.samples[k].under_voltage

\* C13 witness: the run that read 0x0, 0x4, 0x4, 0x0 has returned with one
\* throttle event.
C13_Witness ==
    /\ Done
    /\ Len(hist.samples) = 4
    /\ hist.samples[1].raw = 0 /\ hist.samples[2].raw = 4
    /\ hist.samples[3].raw = 4 /\ hist.samples[4].raw = 0
    /\ result[1].throttle_events = 1

\* C14: a tick whose "now" bits 0-3 equal those of the tick before, whatever
\* the historical bits 16-19 do, counts no throttle or under-voltage event.
C14_HistoricalBitsIgnored ==
    \A k \in 2..Len(hist.samples) :
        NowNibble(hist.samples[k].raw) = NowNibble(hist.samples[k - 1].raw) =>
            ~hist.samples[k].throttle /\ ~hist.samples[k].under_voltage

\* the fixed order of the compute oracles
CpuOrder == <<"dft", "matrix", "prime", "aes">>

\* the fixed order of the memory oracles
MemOrder == <<"sequential", "random_access", "fill_verify", "stream">>

\* the fixed order of the storage cycles
NvmeOrder == <<"random_4k", "sequential", "mixed">>

\* the oracle that follows `prev` in `order`, the first one after "none"
Successor(order, prev) ==
    IF prev = "none" THEN order[1]
    ELSE LET k == CHOOSE j \in 1..Len(order) : order[j] = prev
         IN IF k = Len(order) THEN order[1] ELSE order[k + 1]

\* the step is an oracle invocation by a runner thread going from t to t2
Invokes(t, t2) == t.pc = "check" /\ t2 # t /\ t2.pc # "exited"

\* C16: every runner dispatches its oracles in a fixed round-robin: a compute
\* thread runs DFT, matrix, prime, AES, DFT, ...; a memory thread sequential,
\* random-access, fill/verify, stream, ...; the storage runner 4K-random,
\* sequential, mixed, ... - each invocation runs the oracle after the one
\* invoked before, whether or not that one failed.
C16_RoundRobin ==
    [][/\ \A i \in Threads :
            Invokes(cpu[i], cpu'[i]) =>
                invoked'.cpu[i] = Successor(CpuOrder, invoked.cpu[i])
       /\ \A i \in Threads :
            Invokes(mem[i], mem'[i]) =>
                invoked'.memory[i] = Successor(MemOrder, invoked.memory[i])
       /\ Invokes(nvme, nvme') =>
                invoked'.nvme = Successor(NvmeOrder, invoked.nvme)]_vars

\* C16 witness: the storage runner has run a cycle that failed and then the
\* mixed cycle, the third of the rotation.
C16_Witness ==
    /\ invoked.nvme = "mixed"
    /\ failures["nvme"] >= 1
    /\ errors["nvme"] >= 1

\* C18: once the orchestrator has spawned, there are exactly config.threads
\* compute units when compute is enabled (else none), min(2, threads) memory
\* units when memory is enabled (else none), a storage unit iff storage is
\* enabled and a device descriptor is present, a video unit iff video is
\* enabled; nothing is spawned before; and when the result is produced every
\* spawned unit has returned and been joined.
C18_SpawnedAndJoined ==
    LET cpus == {i \in Threads : cpu[i].pc # "idle"}
        mems == {i \in Threads : mem[i].pc # "idle"}
    IN /\ pc = "start" =>
            cpus = {} /\ mems = {} /\ nvme.pc = "idle" /\ video.pc = "idle"
       /\ pc # "start" =>
            /\ Cardinality(cpus) = (IF config.cpu THEN config.threads ELSE 0)
            /\ Cardinality(mems) =
                  (IF ~config.memory THEN 0
                   ELSE IF config.threads < 2 THEN config.threads ELSE 2)
            /\ nvme.pc # "idle" <=> (config.nvme /\ nvme_info)
            /\ video.pc # "idle" <=> config.video
       /\ Done =>
            /\ \A i \in cpus : cpu[i].pc = "exited"
            /\ \A i \in mems : mem[i].pc = "exited"
            /\ nvme.pc \in {"idle", "exited"}
            /\ video.pc \in {"idle", "exited"}

\* C18 witness: three configured threads with everything enabled and no device
\* descriptor: three compute units, two memory units and the video unit have
\* been joined, no storage unit exists, the result is produced.
C18_Witness ==
    /\ Done
    /\ config.threads = 3
    /\ config.cpu /\ config.memory /\ config.nvme /\ config.video
    /\ ~nvme_info
    /\ \A i \in 1..3 : cpu[i].pc = "exited"
    /\ mem[1].pc = "exited" /\ mem[2].pc = "exited" /\ mem[3].pc = "idle"
    /\ nvme.pc = "idle"
    /\ video.pc = "exited"

\* C15: calculate_usage returns one value per core of the current snapshot,
\* each 100 * (1 - idle_delta/total_delta) against the previous snapshot and
\* within [0,100]; 0 for a core with zero total delta or missing from the
\* previous snapshot, 100 for a core with positive total delta and zero idle
\* delta.
C15_UsageFormula ==
    call.fn = "calculate_usage" /\ ret # <<>> =>
        /\ ~ret[1].panic
        /\ Len(ret[1].usage) = Len(call.curr)
        /\ \A i \in 1..Len(call.curr) :
              LET u == ret[1].usage[i]
                  missing == i > Len(call.prev)
                  total == IF missing THEN 0
                           ELSE SatSub(CoreTotal(call.curr[i]), CoreTotal(call.prev[i]))
                  idle == IF missing THEN 0
                          ELSE SatSub(CoreIdle(call.curr[i]), CoreIdle(call.prev[i]))
              IN /\ 0 <= u.num /\ u.num <= 100 * u.den
                 /\ (missing \/ total = 0) => u.num = 0
                 /\ total > 0 => u.num * total = 100 * (total - idle) * u.den
                 /\ (total > 0 /\ idle = 0) => u.num = 100 * u.den

\* C17 as stated: each memory thread allocates at least 64 MiB and the sum of
\* the buffers of all memory threads is at most half of total RAM, for every
\* RAM size and thread count.
C17_AtLeast64AtMostHalf ==
    call.fn = "alloc" /\ ret # <<>> =>
        /\ ret[1].per_thread >= 64 * 1024
        /\ 2 * ret[1].units * ret[1].per_thread <= call.total_mb * 1024

\* C17 amended: each memory thread allocates at least 64 MiB; the sum of the
\* buffers is at most half of total RAM whenever total RAM is at least
\* 128 MiB per memory thread, and is 64 MiB per thread below that.
C17_AllocationBounds ==
    call.fn = "alloc" /\ ret # <<>> =>
        LET n == IF call.threads < 2 THEN call.threads ELSE 2
        IN /\ ret[1].units = n
           /\ ret[1].per_thread >= 64 * 1024
           /\ call.total_mb >= 128 * n =>
                 2 * n * ret[1].per_thread <= call.total_mb * 1024
           /\ call.total_mb < 128 * n => ret[1].per_thread = 64 * 1024

\* C17 witness: 200 MiB of RAM and three configured threads: two buffers of the
\* minimum size, together more than half of RAM.
C17_Witness ==
    /\ call.fn = "alloc" /\ ret # <<>>
    /\ call.total_mb = 200 /\ call.threads = 3
    /\ ret[1].units = 2
    /\ ret[1].per_thread = 64 * 1024
    /\ 2 * ret[1].units * ret[1].per_thread > call.total_mb * 1024

\* the path has a component that contains "pi-under-pressure"
NamesTool(path) ==
    \E k \in 1..Len(path) :
        path[k] \in {"pi-under-pressure", ".pi-under-pressure-test",
                     ".pi-under-pressure-nvme-test"}

UnderTmp(path) == Len(path) >= 1 /\ path[1] = "tmp"

\* the precedence of get_test_file_path: the caller's path verbatim; else, with
\* the root mount on NVMe, the cache directory under HOME or /var/tmp without
\* HOME; else the first NVMe mount that is not /, /boot or /boot/firmware; else
\* /var/tmp
PathPrecedence ==
    LET l == call.mounts.lines
        on_nvme(k) == Len(l[k]) >= 2 /\ l[k][1] = "/dev/nvme0n1p2"
        roots == {k \in 1..Len(l) : on_nvme(k) /\ l[k][2] = <<>>}
        datas == {k \in 1..Len(l) :
                     on_nvme(k) /\ l[k][2] \notin {<<>>, <<"boot">>, <<"boot", "firmware">>}}
        path == ret[1]
    IN IF call.custom_path # <<>> THEN path = call.custom_path[1]
       ELSE IF roots # {}
       THEN path = (IF call.home # <<>>
                    THEN call.home[1] \o <<".cache", "pi-under-pressure", "nvme-test">>
                    ELSE <<"var", "tmp", ".pi-under-pressure-nvme-test">>)
       ELSE IF datas # {}
       THEN \E k \in datas :
               /\ \A j \in datas : k <= j
               /\ path = l[k][2] \o <<".pi-under-pressure-test">>
       ELSE path = <<"var", "tmp", ".pi-under-pressure-nvme-test">>

\* C19 as stated: the precedence above, and every automatically chosen path
\* contains "pi-under-pressure" and is never under /tmp.
C19_PrecedenceNeverTmp ==
    call.fn = "get_test_file_path" /\ ret # <<>> =>
        /\ PathPrecedence
        /\ call.custom_path = <<>> => NamesTool(ret[1]) /\ ~UnderTmp(ret[1])

\* C19 amended: the precedence above; every automatically chosen path contains
\* "pi-under-pressure", and it is under /tmp only when HOME, or the NVMe mount
\* point chosen, is itself under /tmp.
C19_PathPrecedence ==
    call.fn = "get_test_file_path" /\ ret # <<>> =>
        /\ PathPrecedence
        /\ call.custom_path = <<>> =>
              /\ NamesTool(ret[1])
              /\ UnderTmp(ret[1]) =>
                    \/ call.home # <<>> /\ UnderTmp(call.home[1])
                    \/ \E k \in 1..Len(call.mounts.lines) :
                          /\ Len(call.mounts.lines[k]) >= 2
                          /\ UnderTmp(call.mounts.lines[k][2])
                          /\ ret[1] = call.mounts.lines[k][2] \o <<".pi-under-pressure-test">>

\* C19 witness: no caller path, /boot on NVMe listed before an NVMe data
\* partition, root on the SD card: the data partition is chosen.
C19_Witness ==
    /\ call.fn = "get_test_file_path" /\ ret # <<>>
    /\ call.custom_path = <<>>
    /\ call.mounts.readable
    /\ call.mounts.lines = <<<<"/dev/nvme0n1p2", <<"boot">>>>,
                             <<"/dev/nvme0n1p2", <<"mnt", "data">>>>>>
    /\ ret[1] = <<"mnt", "data", ".pi-under-pressure-test">>

\* C21: once the shutdown flag is cleared, the storage runner performs at most
\* one further chunk-sized I/O operation in the pass it is in, whatever the
\* phase, the creation of the test file included
C21_ShutdownLatencyBounded ==
    frame.fn = "run_nvme_stress" => frame.late <= 1

\* C21, cycles only: in the oracle cycles at most one operation follows the
\* clearing of the flag
C21_CyclesBounded ==
    (frame.fn = "run_nvme_stress" /\ frame.at \in CyclePositions)
        => frame.late <= 1

\* the run was cancelled: Ctrl+C was pressed, or the flag was cleared before
\* the deadline (a quit key)
Cancelled == ctrlc = "fired" \/ hist.shutdown = "early"

\* the four error counts of the TestResult are zero
ZeroErrors(r) ==
    r.cpu_errors = 0 /\ r.memory_errors = 0 /\ r.nvme_errors = 0 /\ r.video_errors = 0

\* C22, the result: a run with nothing enabled that was not cancelled returns
\* completed = true, a duration within one tick of the configured one, and
\* four zero error counts
C22_IdleResult ==
    (Done /\ ~Cancelled) =>
        /\ result[1].completed
        /\ result[1].duration_secs \in (config.duration - 1)..(config.duration + 1)
        /\ ZeroErrors(result[1])

\* C22: for every duration, a run with no enabled category and no
\* cancellation reaches Done, with completed = true, a duration within one
\* sampling tick of the configured one, and four zero error counts
C22_IdleRunCompletes == [](C22_IdleResult) /\ <>(Done \/ Cancelled)

\* C22 with a reader: the same, for the runs whose telemetry channel has a
\* consumer or has lost it (TUI mode)
C22_IdleRunCompletesTui == <>(Done \/ Cancelled \/ tui = "none")

\* a step that stores to the flag when it is already cleared: Ctrl+C, or the
\* orchestrator's own store after its loop
RepeatedStore ==
    /\ ~running
    /\ ctrlc' # ctrlc \/ (pc = "stop" /\ pc' = "join")

\* C23: cancellation is idempotent: a store to an already cleared flag leaves
\* the flag cleared and changes no counter, no telemetry count and no runner;
\* the time of the first store stays the recorded one; and the one TestResult,
\* once built, is never replaced
C23_CancellationIdempotent ==
    [][/\ RepeatedStore =>
            /\ ~running'
            /\ errors' = errors /\ failures' = failures /\ tele' = tele
            /\ cpu' = cpu /\ mem' = mem /\ nvme' = nvme /\ video' = video
            /\ result' = result
       /\ hist.shutdown # "none" => hist'.shutdown = hist.shutdown
       /\ Done => result' = result /\ running' = running]_vars

\* C23 witness: the flag was stored three times (a cancellation before the
\* deadline, Ctrl+C, the post-loop store) and one TestResult with a counted
\* error was returned
C23_Witness ==
    /\ Done
    /\ ctrlc = "fired"
    /\ hist.shutdown = "early"
    /\ result[1].cpu_errors + result[1].memory_errors + result[1].nvme_errors >= 1

RECURSIVE SumTemps(_)
\* the sum of the temperatures the ticks handed to the tracking code
SumTemps(samples) ==
    IF samples = <<>> THEN 0
    ELSE get_cpu_temp(samples[Len(samples)].reading)
           + SumTemps(SubSeq(samples, 1, Len(samples) - 1))

\* C24: the average of the TestResult is the mean of the temperatures of the
\* ticks that ran, one per tick (sum over count, compared as a fraction);
\* the maximum is at least every one of them; a run without a tick reports 0
C24_AverageOfSamples ==
    Done =>
        LET n == Len(hist.samples)
            avg == result[1].avg_cpu_temp
        IN /\ n = 0 => avg.num = 0 /\ avg.den = 1
           /\ n > 0 => avg.den = n /\ avg.num = SumTemps(hist.samples)
           /\ \A k \in 1..n :
                 result[1].max_cpu_temp >= get_cpu_temp(hist.samples[k].reading)

\* C24 witness: a run of three ticks that read 40, 60 and 40 returned the
\* average 140/3 and the maximum 60
C24_Witness ==
    /\ Done
    /\ Len(hist.samples) = 3
    /\ hist.samples[1].reading = 40 /\ hist.samples[2].reading = 60
    /\ hist.samples[3].reading = 40
    /\ result[1].avg_cpu_temp = [num |-> 140, den |-> 3]
    /\ result[1].max_cpu_temp = 60

\* C24 witness, no tick: a run cancelled before its first tick returned the average 0
C24_WitnessEmpty ==
    Done /\ hist.samples = <<>> /\ result[1].avg_cpu_temp.num = 0

\* the ticks whose temperature query succeeded
ReadTicks(samples) == {k \in 1..Len(samples) : samples[k].reading # None}

\* C25: a tick whose temperature query failed contributes no number: the
\* sample it sends carries no temperature and the list the average is taken
\* over holds one entry per tick whose query succeeded
C25_FailedReadingAbsent ==
    /\ Len(tele.temp_samples) = Cardinality(ReadTicks(hist.samples))
    /\ (pc = "send" /\ hist.samples[Len(hist.samples)].reading = None)
          => stats[1].cpu_temp_c = None

\* the candidates in order of preference: hardware first
EncoderOrder == <<Hevc, H264, X264>>

\* the positions in EncoderOrder of the encoders that ffmpeg lists and whose
\* trial encode passes
Accepted(c) ==
    {k \in 1..Len(EncoderOrder) :
        EncoderOrder[k] \in c.listing /\ EncoderOrder[k] \in c.works}

\* C26: detect_encoder returns the first encoder, in the order hevc_v4l2m2m,
\* h264_v4l2m2m, libx264, that is listed and passes the trial encode; none when
\* ffmpeg is unavailable or no candidate passes; the software encoder only
\* when both hardware encoders were rejected
C26_HardwareFirst ==
    (call.fn = "detect_encoder" /\ ret # <<>>) =>
        /\ (~call.ffmpeg \/ Accepted(call) = {}) => ret[1] = NoEncoder
        /\ (call.ffmpeg /\ Accepted(call) # {}) =>
              \E k \in Accepted(call) :
                  /\ ret[1] = EncoderOrder[k]
                  /\ \A j \in Accepted(call) : k <= j
        /\ ret[1] = X264 => Accepted(call) = {3}

\* C26 witness: every candidate is listed, the trial of hevc_v4l2m2m fails,
\* and h264_v4l2m2m is chosen over libx264
C26_Witness ==
    /\ call.fn = "detect_encoder"
    /\ call.ffmpeg
    /\ call.listing = {Hevc, H264, X264, X264Rgb}
    /\ call.works = {H264, X264}
    /\ ret = <<H264>>

\* the reference definition of primality, by trial division up to the root
IsPrime(n) ==
    /\ n >= 2
    /\ \A q \in 2..316 : q * q > n \/ n % q # 0

\* C27: an invocation of the prime-sieve oracle sieves up to 100,000, counts
\* exactly 9,592 primes, the number of primes of the reference definition up
\* to the limit, leaves true exactly the flags of the primes, and returns true
C27_SieveExact ==
    (frame.fn = "run_prime_stress" /\ ret # <<>>) =>
        /\ ret[1] = TRUE
        /\ frame.prime_count = 9592
        /\ \A n \in 0..LIMIT : is_prime(frame.sieved, n) <=> IsPrime(n)

\* C27 witness: the sieve has run its 315 passes (i = 2..316) and returned
C27_Witness ==
    /\ frame.fn = "run_prime_stress"
    /\ frame.i = 317
    /\ frame.prime_count = 9592
    /\ ret = <<TRUE>>

\* the pass and index at which the fault of input c makes a byte read back
\* differ from the pattern just written (empty for fault-free memory, for a
\* fault outside the bytes the pass reads, and for a cell that gives the pattern)
Mismatches(c) ==
    {<<q, k>> \in (1..12) \X (1..Len(c.buffer)) :
        /\ c.fault.pass = q /\ c.fault.index = k
        /\ k <= (IF q <= 4 THEN Len(c.buffer) ELSE Min(WALK_SIZE, Len(c.buffer)))
        /\ c.fault.value # (IF q <= 4 THEN <<0, 255, 170, 85>>[q] ELSE 2 ^ (q - 5))}

\* C28: for every buffer length, run_fill_verify_stress fills with 0x00, 0xFF,
\* 0xAA, 0x55 in that order and on fault-free memory every byte then reads as
\* the pattern; it returns false iff some byte read back (the whole buffer in
\* the four fills, the first min(4096, N) bytes in the eight walking-bit
\* passes) differs from the pattern just written
C28_FillVerify ==
    (call.fn = "run_fill_verify_stress" /\ ret # <<>>) =>
        /\ ret[1].ok <=> Mismatches(call) = {}
        /\ call.fault = NoFault =>
              /\ Len(ret[1].seen) = 12
              /\ \A q \in 1..4 : \A k \in 1..Len(call.buffer) :
                    ret[1].seen[q][k] = <<0, 255, 170, 85>>[q]

\* C28 witness: a buffer longer than the walking-bit region whose last byte
\* reads wrong in the third fill (0xAA) is reported
C28_Witness ==
    /\ call.fn = "run_fill_verify_stress"
    /\ Len(call.buffer) = MaxBuf
    /\ call.fault = [pass |-> 3, index |-> MaxBuf, value |-> 254]
    /\ ret # <<>>
    /\ ~ret[1].ok
    /\ Len(ret[1].seen) = 3

\* C28, beyond the region: a faulty byte in a walking-bit pass at an index the
\* pass does not read goes unreported
C28_WitnessUnread ==
    /\ call.fn = "run_fill_verify_stress"
    /\ Len(call.buffer) = MaxBuf
    /\ call.fault = [pass |-> 5, index |-> MaxBuf, value |-> 254]
    /\ ret # <<>>
    /\ ret[1].ok

\* C29: on fault-free memory the random-access oracle passes, whatever the
\* buffer and whatever the random offsets and values drawn
C29_RandomAccessPasses ==
    (call.fn = "run_random_access_stress" /\ ret # <<>>) => ret[1].ok

\* the section headers above line i that from_line recognizes
RecognizedAbove(lines, i) ==
    {j \in 1..(i - 1) : lines[j].kind = "header" /\ from_line(lines[j].name) # <<>>}

Last(S) == CHOOSE j \in S : \A k \in S : k <= j

\* the filter named after the model itself, and the filter of its family
OwnFilter(model) ==
    CASE model = "Pi5" -> "pi5" [] model = "Pi500" -> "pi500" [] model = "Cm5" -> "cm5"
      [] model = "Pi4" -> "pi4" [] model = "Pi400" -> "pi400" [] model = "Cm4" -> "cm4"
      [] model = "Cm4S" -> "cm4s" [] model = "Pi3" -> "pi3" [] model = "Pi3Plus" -> "pi3+"
      [] model = "Cm3" -> "cm3" [] model = "Cm3Plus" -> "cm3+" [] model = "Pi2" -> "pi2"
      [] model = "Pi1" -> "pi1" [] model = "Cm1" -> "cm1" [] model = "Pi0" -> "pi0"
      [] model = "Pi0W" -> "pi0w" [] model = "Pi02" -> "pi02" [] OTHER -> "no filter"

FamilyFilter(model) ==
    CASE model \in {"Pi5", "Pi500", "Cm5"} -> "pi5"
      [] model \in {"Pi4", "Pi400", "Cm4", "Cm4S"} -> "pi4"
      [] model \in {"Pi3", "Cm3"} -> "pi3"
      [] model \in {"Pi3Plus", "Cm3Plus"} -> "pi3+"
      [] model \in {"Pi1", "Cm1"} -> "pi1"
      [] model \in {"Pi0", "Pi0W", "Pi02"} -> "pi0"
      [] OTHER -> OwnFilter(model)

\* line i stands in a section that applies to the model: no recognized header
\* above it, or the nearest one is [all], the model's own or its family's
SectionApplies(lines, i, model) ==
    LET above == RecognizedAbove(lines, i)
    IN  \/ above = {}
        \/ /\ above # {}
           /\ LET filter == from_line(lines[Last(above)].name)[1]
              IN  \/ filter = "all"
                  \/ filter # "none" /\ filter \in {OwnFilter(model), FamilyFilter(model)}

\* the key=value lines for a key in applying sections, all and those whose
\* value parses
AppliedLines(lines, model, key) ==
    {i \in 1..Len(lines) :
        lines[i].kind = "kv" /\ lines[i].key = key /\ SectionApplies(lines, i, model)}

ParsedLines(lines, model, key) ==
    {i \in AppliedLines(lines, model, key) : ParseValue(key, lines[i].value) # <<>>}

\* the file with the settings of non-applying sections blanked out
Blanked(lines, model) ==
    [i \in 1..Len(lines) |->
        IF lines[i].kind \in {"kv", "dtparam"} /\ ~SectionApplies(lines, i, model)
        THEN [kind |-> "comment"]
        ELSE lines[i]]

Parsed == call.fn = "parse_config_from_str" /\ ret # <<>>

\* C30: a key=value line is applied iff the nearest recognized section header
\* above it applies to the model; for each key the last applied line decides
\* both the raw value and the typed field of the resulting config, and lines in
\* non-applying sections change nothing.
C30_LastAppliedWins ==
    Parsed =>
        /\ ret[1] = parse_config_from_str(Blanked(call.lines, call.model), call.model)
        /\ \A key \in U32Keys \cup I32Keys :
              LET applied == AppliedLines(call.lines, call.model, key)
              IN  IF applied = {}
                  THEN ret[1].raw_values[key] = <<>> /\ ret[1].typed[key] = <<>>
                  ELSE LET value == call.lines[Last(applied)].value
                       IN  /\ ret[1].raw_values[key] = Some(value)
                           /\ ret[1].typed[key] = ParseValue(key, value)

\* What does hold for C30: sections filter as stated, the raw value is the
\* last applied line's, and the typed field is that of the last applied line
\* whose value parses.
C30_SectionFilter ==
    Parsed =>
        /\ ret[1] = parse_config_from_str(Blanked(call.lines, call.model), call.model)
        /\ \A key \in U32Keys \cup I32Keys :
              LET applied == AppliedLines(call.lines, call.model, key)
                  parsed == ParsedLines(call.lines, call.model, key)
              IN  /\ ret[1].raw_values[key] =
                        IF applied = {} THEN <<>>
                        ELSE Some(call.lines[Last(applied)].value)
                  /\ ret[1].typed[key] =
                        IF parsed = {} THEN <<>>
                        ELSE ParseValue(key, call.lines[Last(parsed)].value)

\* [pi5] reached a Pi 500 and [pi500] did not reach a Pi 5
C30_WitnessFamily ==
    /\ Parsed
    /\ \E i \in 1..Len(call.lines) :
          /\ call.lines[i] = [kind |-> "header", name |-> "pi5"]
          /\ call.model = "Pi500"
          /\ ret[1].typed["arm_freq"] = Some(3000)
          /\ AppliedLines(call.lines, call.model, "arm_freq") = {i + 1}

\* the file without its line i
WithoutLine(lines, i) ==
    [j \in 1..(Len(lines) - 1) |-> IF j < i THEN lines[j] ELSE lines[j + 1]]

\* C31: a section header whose name is not one of the filters leaves the filter
\* state as it was: the resulting config is the one of the same file with that
\* header line removed.
C31_UnknownHeaderIgnored ==
    Parsed =>
        \A i \in 1..Len(call.lines) :
            (/\ call.lines[i].kind = "header"
             /\ to_lowercase(call.lines[i].name) \notin FilterNames) =>
                ret[1] = parse_config_from_str(WithoutLine(call.lines, i), call.model)

\* [tryboot] stood between [none] and a setting that stayed skipped, and
\* between [pi5] and a setting that stayed applied
C31_Witness ==
    /\ Parsed
    /\ Len(call.lines) >= 3
    /\ call.lines[2] = [kind |-> "header", name |-> "tryboot"]
    /\ call.lines[3] = [kind |-> "kv", key |-> "arm_freq", value |-> "2800"]
    /\ \/ /\ call.lines[1] = [kind |-> "header", name |-> "none"]
          /\ ret[1].raw_values["arm_freq"] = <<>>
       \/ /\ call.lines[1] = [kind |-> "header", name |-> "pi5"]
          /\ call.model = "Cm5"
          /\ ret[1].typed["arm_freq"] = Some(2800)

\* every runner has returned (or was never spawned)
AllTerminated ==
    /\ \A i \in Threads : cpu[i].pc \in {"idle", "exited"}
    /\ \A i \in Threads : mem[i].pc \in {"idle", "exited"}
    /\ nvme.pc \in {"idle", "exited"}
    /\ video.pc \in {"idle", "exited"}

\* the StressStats that were sent and are still queued
SentStats == {chan[i] : i \in 1..Len(chan)}

\* C32: once the TestResult exists every spawned runner has terminated, the
\* four counters stay what the result recorded, and no telemetry sample sent
\* earlier shows a count above the result's.
C32_CountsFinal ==
    result # <<>> =>
        /\ AllTerminated
        /\ result[1].cpu_errors = errors["cpu"]
        /\ result[1].memory_errors = errors["memory"]
        /\ result[1].nvme_errors = errors["nvme"]
        /\ result[1].video_errors = errors["video"]
        /\ \A s \in SentStats :
              /\ s.cpu_errors <= result[1].cpu_errors
              /\ s.memory_errors <= result[1].memory_errors
              /\ s.nvme_errors <= result[1].nvme_errors

\* a runner counted an error after the last sample was sent and before it was
\* joined: the result shows more than the sample
C32_Witness ==
    /\ result # <<>>
    /\ \E s \in SentStats, c \in {"cpu", "memory", "nvme"} :
          /\ c = "cpu" => s.cpu_errors < result[1].cpu_errors
          /\ c = "memory" => s.memory_errors < result[1].memory_errors
          /\ c = "nvme" => s.nvme_errors < result[1].nvme_errors
    /\ hist.shutdown # "none"

\* the raw value the tick before sample k read; 0 before the first tick
PrevRaw(k) == IF k = 1 THEN 0 ELSE hist.samples[k - 1].raw

\* the ticks whose raw value differs from the tick before
ChangedTicks == {k \in 1..Len(hist.samples) : hist.samples[k].raw # PrevRaw(k)}

\* C33 as stated: each tick whose raw value changed and that has one of the
\* four "now" bits 0-3 set adds exactly one throttle event, each changed tick
\* with bit 0 set adds exactly one under-voltage event, and no other tick
\* changes either count.
C33_EventPerActiveFlag ==
    /\ tele.throttle_events =
          Cardinality({k \in ChangedTicks : NowNibble(hist.samples[k].raw) # 0})
    /\ tele.under_voltage_events =
          Cardinality({k \in ChangedTicks : Bit(hist.samples[k].raw, 0)})

\* C33 amended: each changed tick with one of bits 1-3 (frequency-capped,
\* throttled, soft-limit) set adds exactly one throttle event, each changed
\* tick with bit 0 (under-voltage) set adds exactly one under-voltage event,
\* and no other tick changes either count.
C33_EventPerThrottleFlag ==
    /\ tele.throttle_events =
          Cardinality({k \in ChangedTicks : NowNibble(hist.samples[k].raw) \div 2 # 0})
    /\ tele.under_voltage_events =
          Cardinality({k \in ChangedTicks : Bit(hist.samples[k].raw, 0)})

\* the ticks read 0x1, 0x4, 0x4: one under-voltage event, then one throttle
\* event, then nothing
C33_Witness ==
    /\ Len(hist.samples) >= 3
    /\ hist.samples[1].raw = 1
    /\ hist.samples[2].raw = 4
    /\ hist.samples[3].raw = 4
    /\ tele.throttle_events = 1
    /\ tele.under_voltage_events = 1

\* C34: the final report's io_errors is the number of lines the strict check
\* (check_io_errors / is_io_error) takes, and storage category and verdict are
\* those of a report generated from these lines alone: a line that is a
\* general diagnostic (an Oops, an MCE) changes none of them.
C34_StrictIoErrorsOnly ==
    (call.fn = "final_report" /\ ret # <<>>) =>
        /\ ret[1].io_errors = Len(check_io_errors(call.log))
        /\ ret[1] = generate_report(call.result, check_io_errors(call.log))

\* What does hold for C34: the report is generated from the lines the broad
\* check (check_dmesg_errors / is_relevant_error) takes.
C34_BroadErrorsCounted ==
    (call.fn = "final_report" /\ ret # <<>>) =>
        /\ ret[1].io_errors = Len(check_dmesg_errors(call.log))
        /\ \A i \in DOMAIN call.log.dmesg :
              (call.log.dmesg_ok /\ is_relevant_error(call.log.dmesg[i].text)) =>
                  ~ret[1].nvme_stress_passed /\ ~ret[1].passed

\* a pass of the TUI event loop
TuiPass == tui = "loop" /\ tui' # tui

\* C35: in TUI mode the tail of the program terminates: a pass of the TUI
\* loop that finds the shutdown flag set exits, a pass that sets the flag
\* itself (q, Q, Esc) exits too and no pass raises the flag again; so once
\* run_stress_test has returned, the await on the TUI task completes and the
\* final report is generated.
C35_TailTerminates ==
    /\ [][/\ (TuiPass /\ ~running) => tui' = "exited"
          /\ (TuiPass /\ running /\ ~running') => tui' = "exited"
          /\ TuiPass => (running' => running)]_vars
    /\ (tui # "none" /\ pc = "await_ui") ~> (tui = "exited" /\ report # <<>>)

\* the run ended at its deadline, the TUI task returned and the report exists
C35_Witness ==
    /\ tui = "exited"
    /\ hist.shutdown = "due"
    /\ ctrlc = "armed"
    /\ report # <<>>

\* the filters named after one model that is not the head of a family
SpecificFilters ==
    {"pi500", "cm5", "pi400", "cm4", "cm4s", "cm3", "cm3+", "pi2", "cm1", "pi0w", "pi02"}

\* C36: should_apply_filter(filter, model) equals filter.matches(model) for
\* all 19 filters and 18 models; a model-specific filter applies to exactly
\* the model it is named after; only [all] applies to the Unknown model.
C36_InheritanceRedundant ==
    (call.fn = "should_apply_filter" /\ ret # <<>>) =>
        /\ ret[1] = matches(call.filter, call.model)
        /\ call.filter \in SpecificFilters =>
              (ret[1] <=> call.filter = OwnFilter(call.model))
        /\ call.model = "Unknown" => (ret[1] <=> call.filter = "all")

\* [pi5] applied to a Compute Module 5, which both branches grant
C36_Witness ==
    /\ call.fn = "should_apply_filter"
    /\ call.filter = "pi5"
    /\ call.model = "Cm5"
    /\ ret = <<TRUE>>

\* C37: calculate_usage is total: for every pair of snapshots, counters that
\* went backwards included, no core's total_diff - idle_diff leaves the range
\* of u64, the call returns, and every usage lies within [0,100].
C37_UsageTotal ==
    (call.fn = "calculate_usage" /\ ret # <<>>) =>
        /\ \A i \in 1..Len(call.curr) :
              i <= Len(call.prev) => ~Underflows(call.curr[i], call.prev[i])
        /\ ~ret[1].panic
        /\ \A i \in 1..Len(ret[1].usage) :
              0 <= ret[1].usage[i].num /\ ret[1].usage[i].num <= 100 * ret[1].usage[i].den

\* C38: the bandwidth oracle never traps and never fails: for every buffer
\* length every index of the copy, scale, add and triad loops is within the
\* lanes, and the call returns true whatever the buffer holds.
C38_StreamNeverTraps ==
    (call.fn = "run_stream_stress" /\ ret # <<>>) =>
        /\ ~ret[1].trap
        /\ ret[1].ok
        /\ Len(ret[1].lanes) = call.bytes \div 8

\* a buffer of five lanes (a length that neither 2 nor 3 divides) and a
\* trailing partial lane went through all four loops
C38_Witness ==
    /\ call.fn = "run_stream_stress"
    /\ call.bytes = 47
    /\ call.lanes = <<1, 5, 0, 1, 5>>
    /\ ret # <<>>
    /\ ret[1].ok
    /\ ret[1].lanes # call.lanes

\* the all-zero buffer of the unit test passes by the second disjunct
C38_WitnessZero ==
    /\ call.fn = "run_stream_stress"
    /\ call.lanes = <<0, 0, 0>>
    /\ ret # <<>>
    /\ ret[1].ok
    /\ ret[1].lanes = call.lanes

\* the step in which the runner counts the result of a cycle
CountsCycle == frame.fn = "run_nvme_stress" /\ frame.at = "count" /\ frame' # frame

\* C39: cancellation is not an error for the storage runner: the error
\* counter goes up by one after a cycle in which an I/O call failed and stays
\* as it is after every other cycle, a cycle cut short by the shutdown flag
\* included; outside the counting of a cycle the runner's cycles leave it alone.
C39_CancellationNotCounted ==
    [][/\ CountsCycle =>
            errors'["nvme"] = errors["nvme"] + (IF frame.failed THEN 1 ELSE 0)
       /\ (frame.fn = "run_nvme_stress" /\ frame.at \in CyclePositions \ {"count"}) =>
            errors' = errors]_vars

\* a cycle was cut short after its first operation and returned success: it
\* is about to be counted with the flag cleared and nothing failed
C39_Witness ==
    /\ frame.fn = "run_nvme_stress"
    /\ frame.at = "count"
    /\ ~running
    /\ frame.n >= 1 /\ frame.n < MaxChunks
    /\ frame.ok
    /\ ~frame.failed

\* C20: whenever run_nvme_stress has returned, the final removal of the test
\* file has been attempted, on the early return after a failed creation too.
C20_FileRemovedOnReturn == nvme.pc = "exited" => fs.cleanup

TypeOK ==
    /\ running \in BOOLEAN
    /\ now \in 0..(MaxTime + 1)
    /\ Len(chan) <= ChanCap
    /\ Len(result) <= 1
    /\ Len(report) <= 1

====
